---- MODULE Spec2Model ----
(***************************************************************************)
(* Model of the agro-food price pipeline: field extraction from free text  *)
(* (src/src/data_processor.py), record normalisation and enrichment, and   *)
(* the analyzers of src/src/advanced_features.py and                       *)
(* src/src/interactive_features.py.                                        *)
(*                                                                         *)
(* Texts are sequences of characters, each a string; a character outside   *)
(* ASCII is written as a name in angle brackets ("<euro>" is the euro      *)
(* sign) and labels are written without their accents.  Floating point     *)
(* values are exact fractions [n, d]; d = 0 encodes the IEEE specials:     *)
(* n = 0 is NaN (pandas' null), n > 0 is +inf, n < 0 is -inf.              *)
(***************************************************************************)
EXTENDS Integers, Sequences, FiniteSets, TLC

(***************************************************************************)
(* Numbers                                                                 *)
(***************************************************************************)
Abs(x) == IF x < 0 THEN -x ELSE x

RECURSIVE GCD(_, _)
GCD(a, b) == IF b = 0 THEN a ELSE GCD(b, a % b)

\* The fraction n/d in lowest terms with a positive denominator (d # 0).
Frac(n, d) ==
    LET g == GCD(Abs(n), Abs(d))
        s == IF d < 0 THEN -1 ELSE 1
    IN  [n |-> s * (n \div g), d |-> s * (d \div g)]

NaN == [n |-> 0, d |-> 0]
PosInf == [n |-> 1, d |-> 0]
NegInf == [n |-> -1, d |-> 0]
Num(i) == [n |-> i, d |-> 1]

\* pd.isna / pd.notna / np.isnan on a float
IsNaN(x) == x.d = 0 /\ x.n = 0
IsFinite(x) == x.d > 0

FNeg(x) == [n |-> -x.n, d |-> x.d]

\* IEEE addition
FAdd(x, y) ==
    IF IsNaN(x) \/ IsNaN(y) THEN NaN
    ELSE IF x.d = 0 /\ y.d = 0 THEN (IF x.n = y.n THEN x ELSE NaN)
    ELSE IF x.d = 0 THEN x
    ELSE IF y.d = 0 THEN y
    ELSE LET g == GCD(x.d, y.d)
         IN  Frac(x.n * (y.d \div g) + y.n * (x.d \div g), (x.d \div g) * y.d)

FSub(x, y) == FAdd(x, FNeg(y))

Sign(i) == IF i > 0 THEN 1 ELSE IF i < 0 THEN -1 ELSE 0

\* IEEE multiplication
FMul(x, y) ==
    IF IsNaN(x) \/ IsNaN(y) THEN NaN
    ELSE IF x.d = 0 \/ y.d = 0
         THEN (IF x.n = 0 \/ y.n = 0 THEN NaN
               ELSE [n |-> Sign(x.n) * Sign(y.n), d |-> 0])
    ELSE LET a == Frac(x.n, y.d)
             b == Frac(y.n, x.d)
         IN  [n |-> a.n * b.n, d |-> a.d * b.d]

\* IEEE division as numpy performs it: x/0 is +-inf, 0/0 is NaN
FDiv(x, y) ==
    IF IsNaN(x) \/ IsNaN(y) THEN NaN
    ELSE IF x.d = 0 /\ y.d = 0 THEN NaN
    ELSE IF x.d = 0 THEN [n |-> Sign(x.n) * (IF y.n < 0 THEN -1 ELSE 1), d |-> 0]
    ELSE IF y.d = 0 THEN Num(0)
    ELSE IF y.n = 0 THEN [n |-> Sign(x.n), d |-> 0]
    ELSE LET a == Frac(x.n, y.n)
             b == Frac(y.d, x.d)
         IN  [n |-> a.n * b.n, d |-> a.d * b.d]

\* The sign of a/b - c/d for b, d > 0, by comparing the integer parts and
\* then the reciprocals of the remainders (no product is formed).
RECURSIVE CmpFrac(_, _, _, _)
CmpFrac(a, b, c, d) ==
    LET fa == a \div b
        fc == c \div d
        ra == a % b
        rc == c % d
    IN  IF fa # fc THEN (IF fa < fc THEN -1 ELSE 1)
        ELSE IF ra = 0 /\ rc = 0 THEN 0
        ELSE IF ra = 0 THEN -1
        ELSE IF rc = 0 THEN 1
        ELSE CmpFrac(d, rc, b, ra)

\* x < y and x > y; every comparison with NaN is false
FLess(x, y) ==
    /\ ~IsNaN(x) /\ ~IsNaN(y)
    /\ IF x.d = 0 /\ y.d = 0 THEN x.n < y.n
       ELSE IF x.d = 0 THEN x.n < 0
       ELSE IF y.d = 0 THEN y.n > 0
       ELSE CmpFrac(x.n, x.d, y.n, y.d) < 0

FGreater(x, y) == FLess(y, x)

FAbs(x) == [n |-> Abs(x.n), d |-> x.d]

(***************************************************************************)
(* Text                                                                    *)
(***************************************************************************)
\* pandas' missing description (None / NaN): no text at all.
NA == <<"<NA>">>

DigitChars == <<"0", "1", "2", "3", "4", "5", "6", "7", "8", "9">>
LowerChars == <<"a", "b", "c", "d", "e", "f", "g", "h", "i", "j", "k", "l", "m",
                "n", "o", "p", "q", "r", "s", "t", "u", "v", "w", "x", "y", "z",
                "<e-grave>", "<e-acute>", "<oe>">>
UpperChars == <<"A", "B", "C", "D", "E", "F", "G", "H", "I", "J", "K", "L", "M",
                "N", "O", "P", "Q", "R", "S", "T", "U", "V", "W", "X", "Y", "Z",
                "<E-grave>", "<E-acute>", "<OE>">>

IsDigit(c) == \E i \in 1..Len(DigitChars) : DigitChars[i] = c
DigitVal(c) == (CHOOSE i \in 1..Len(DigitChars) : DigitChars[i] = c) - 1
IsSpace(c) == c = " "

UpperChar(c) ==
    IF \E i \in 1..Len(LowerChars) : LowerChars[i] = c
    THEN UpperChars[CHOOSE i \in 1..Len(LowerChars) : LowerChars[i] = c]
    ELSE c

\* str(text).upper()
Upper(t) == [i \in 1..Len(t) |-> UpperChar(t[i])]

\* Last index of the maximal run of digits (of spaces) starting at i; i-1 if none.
RECURSIVE DigitRunEnd(_, _)
DigitRunEnd(t, i) ==
    IF i <= Len(t) /\ IsDigit(t[i]) THEN DigitRunEnd(t, i + 1) ELSE i - 1

RECURSIVE SpaceRunEnd(_, _)
SpaceRunEnd(t, i) ==
    IF i <= Len(t) /\ IsSpace(t[i]) THEN SpaceRunEnd(t, i + 1) ELSE i - 1

\* The literal w stands in t at position i.
LitAt(t, i, w) ==
    /\ i >= 1
    /\ i + Len(w) - 1 <= Len(t)
    /\ \A k \in 1..Len(w) : t[i + k - 1] = w[k]

\* `w in t` of Python
Contains(t, w) == \E i \in 1..(Len(t) + 1) : LitAt(t, i, w)

MinOf(S) == CHOOSE x \in S : \A y \in S : x <= y

\* str.replace of one character
Replace(t, from, to) == [i \in 1..Len(t) |-> IF t[i] = from THEN to ELSE t[i]]

RECURSIVE IntOf(_)
IntOf(ds) ==
    IF Len(ds) = 0 THEN 0
    ELSE 10 * IntOf(SubSeq(ds, 1, Len(ds) - 1)) + DigitVal(ds[Len(ds)])

RECURSIVE Pow10(_)
Pow10(k) == IF k = 0 THEN 1 ELSE 10 * Pow10(k - 1)

AllDigits(ds) == Len(ds) > 0 /\ \A i \in 1..Len(ds) : IsDigit(ds[i])

\* float(s) for the tokens the patterns capture: <<value>>, or <<>> for the
\* ValueError Python raises on anything that is not digits[.digits].
ParseFloat(s) ==
    IF AllDigits(s) THEN <<Num(IntOf(s))>>
    ELSE LET dots == {i \in 1..Len(s) : s[i] = "."}
         IN  IF Cardinality(dots) # 1 THEN <<>>
             ELSE LET p == CHOOSE i \in dots : TRUE
                      ip == SubSeq(s, 1, p - 1)
                      fp == SubSeq(s, p + 1, Len(s))
                  IN  IF AllDigits(ip) /\ AllDigits(fp)
                      THEN <<Frac(IntOf(ip) * Pow10(Len(fp)) + IntOf(fp), Pow10(Len(fp)))>>
                      ELSE <<>>

(***************************************************************************)
(* Field extraction (AgroDataProcessor)                                    *)
(***************************************************************************)
\* (\d+[.,]\d+) at position i: last index of the decimal amount, 0 if none.
DecimalEnd(t, i) ==
    LET a == DigitRunEnd(t, i)
    IN  IF a >= i /\ a + 1 <= Len(t) /\ t[a + 1] \in {".", ","}
        THEN LET b == DigitRunEnd(t, a + 2)
             IN  IF b >= a + 2 THEN b ELSE 0
        ELSE 0

\* The four price patterns, matched at position i: the captured group, <<>> if
\* the pattern does not match there.
PriceMatchAt(k, t, i) ==
    CASE k = 1 ->  \* (\d+[.,]\d+)\s*EURO-SIGN
            LET b == DecimalEnd(t, i)
            IN  IF b > 0 /\ LitAt(t, SpaceRunEnd(t, b + 1) + 1, <<"<euro>">>)
                THEN SubSeq(t, i, b) ELSE <<>>
      [] k = 2 ->  \* EURO-SIGN\s*(\d+[.,]\d+)
            IF t[i] = "<euro>"
            THEN LET s == SpaceRunEnd(t, i + 1) + 1
                     b == DecimalEnd(t, s)
                 IN  IF b > 0 THEN SubSeq(t, s, b) ELSE <<>>
            ELSE <<>>
      [] k = 3 ->  \* (\d+[.,]\d+)\s*EUR
            LET b == DecimalEnd(t, i)
            IN  IF b > 0 /\ LitAt(t, SpaceRunEnd(t, b + 1) + 1, <<"E", "U", "R">>)
                THEN SubSeq(t, i, b) ELSE <<>>
      [] OTHER ->  \* (\d+)\s*EURO-SIGN
            LET a == DigitRunEnd(t, i)
            IN  IF a >= i /\ LitAt(t, SpaceRunEnd(t, a + 1) + 1, <<"<euro>">>)
                THEN SubSeq(t, i, a) ELSE <<>>

NumPricePatterns == 4

\* re.search(pattern k, t): the group of the leftmost match, <<>> if none.
PriceSearch(k, t) ==
    LET I == {i \in 1..Len(t) : PriceMatchAt(k, t, i) # <<>>}
    IN  IF I = {} THEN <<>> ELSE PriceMatchAt(k, t, MinOf(I))

\* The loop over price_patterns from pattern k on: the first pattern that
\* matches and whose token float() accepts decides; a ValueError continues.
RECURSIVE PriceFrom(_, _)
PriceFrom(k, t) ==
    IF k > NumPricePatterns THEN NaN
    ELSE LET m == PriceSearch(k, t)
             p == IF m = <<>> THEN <<>> ELSE ParseFloat(Replace(m, ",", "."))
         IN  IF p # <<>> THEN p[1] ELSE PriceFrom(k + 1, t)

\* clean_price_text answering the amount that stands first in the text,
\* whichever pattern matches it
clean_price_text_leftmost(text) ==
    IF text = NA THEN NaN
    ELSE LET t == Upper(text)
             At(k) == {i \in 1..Len(t) : PriceMatchAt(k, t, i) # <<>>}
             K == {k \in 1..NumPricePatterns : At(k) # {}}
         IN  IF K = {} THEN NaN
             ELSE LET k == CHOOSE k \in K : \A j \in K :
                                \/ MinOf(At(k)) < MinOf(At(j))
                                \/ MinOf(At(k)) = MinOf(At(j)) /\ k <= j
                  IN  ParseFloat(Replace(PriceSearch(k, t), ",", "."))[1]

\* clean_price_text answering 0 where no pattern gives a price
clean_price_text_zero(text) ==
    IF text = NA THEN NaN
    ELSE LET v == PriceFrom(1, Upper(text))
         IN  IF IsNaN(v) THEN Num(0) ELSE v

clean_price_text(text) ==
    IF text = NA THEN NaN ELSE PriceFrom(1, Upper(text))

\* The quantity patterns (\d+)\s*<unit>, in list order.
QuantityUnits ==
    << <<"K", "G">>, <<"G">>, <<"L">>, <<"M", "L">>,
       <<"P", "I", "E", "C", "E">>, <<"B", "A", "R", "Q">>,
       <<"C", "O", "L", "I", "S">>, <<"P", "L", "A", "T", "E", "A", "U">> >>

\* (\d+)\s*<unit u> at position i: last index of the integer, 0 if no match.
QuantityMatchAt(u, t, i) ==
    LET a == DigitRunEnd(t, i)
    IN  IF a >= i /\ LitAt(t, SpaceRunEnd(t, a + 1) + 1, u) THEN a ELSE 0

\* int(s): <<value>>, or <<>> for the ValueError Python raises on a token that
\* is not all digits.
ParseInt(s) == IF AllDigits(s) THEN <<Num(IntOf(s))>> ELSE <<>>

\* The loop over quantity_patterns from pattern k on: (quantity, unit) of the
\* leftmost match of the first pattern that matches, (None, None) if none does.
\* int() is not guarded: its ValueError would escape (raised).
RECURSIVE QuantityFrom(_, _)
QuantityFrom(k, t) ==
    IF k > Len(QuantityUnits) THEN [quantity |-> NaN, unit |-> <<>>, raised |-> FALSE]
    ELSE LET u == QuantityUnits[k]
             I == {i \in 1..Len(t) : QuantityMatchAt(u, t, i) > 0}
         IN  IF I = {} THEN QuantityFrom(k + 1, t)
             ELSE LET i == MinOf(I)
                      q == ParseInt(SubSeq(t, i, QuantityMatchAt(u, t, i)))
                  IN  IF q = <<>>
                      THEN [quantity |-> NaN, unit |-> <<>>, raised |-> TRUE]
                      ELSE [quantity |-> q[1], unit |-> u, raised |-> FALSE]

\* extract_quantity answering the quantity that stands first in the text,
\* whichever unit follows it
extract_quantity_leftmost(text) ==
    IF text = NA THEN [quantity |-> NaN, unit |-> <<>>, raised |-> FALSE]
    ELSE LET t == Upper(text)
             At(k) == {i \in 1..Len(t) : QuantityMatchAt(QuantityUnits[k], t, i) > 0}
             K == {k \in 1..Len(QuantityUnits) : At(k) # {}}
         IN  IF K = {} THEN [quantity |-> NaN, unit |-> <<>>, raised |-> FALSE]
             ELSE LET k == CHOOSE k \in K : \A j \in K :
                                \/ MinOf(At(k)) < MinOf(At(j))
                                \/ MinOf(At(k)) = MinOf(At(j)) /\ k <= j
                      i == MinOf(At(k))
                  IN  [quantity |-> Num(IntOf(SubSeq(t, i, QuantityMatchAt(QuantityUnits[k], t, i)))),
                       unit |-> QuantityUnits[k], raised |-> FALSE]

extract_quantity(text) ==
    IF text = NA THEN [quantity |-> NaN, unit |-> <<>>, raised |-> FALSE]
    ELSE QuantityFrom(1, Upper(text))

\* The gazetteer, in list order.
countries ==
    << <<"F", "R", "A", "N", "C", "E">>, <<"E", "S", "P", "A", "G", "N", "E">>,
       <<"M", "A", "R", "O", "C">>, <<"I", "T", "A", "L", "I", "E">>,
       <<"B", "E", "L", "G", "I", "Q", "U", "E">>,
       <<"P", "A", "Y", "S", "-", "B", "A", "S">>,
       <<"T", "U", "N", "I", "S", "I", "E">>, <<"U", "E">>,
       <<"U", ".", "E", ".">>,
       <<"A", "L", "L", "E", "M", "A", "G", "N", "E">>,
       <<"P", "O", "R", "T", "U", "G", "A", "L">>, <<"G", "R", "<E-grave>", "C", "E">> >>

\* extract_origin answering the country that stands first in the text
extract_origin_leftmost(text) ==
    IF text = NA THEN <<>>
    ELSE LET t == Upper(text)
             At(k) == {i \in 1..Len(t) : LitAt(t, i, countries[k])}
             I == {k \in 1..Len(countries) : At(k) # {}}
         IN  IF I = {} THEN <<>>
             ELSE countries[CHOOSE k \in I : \A j \in I : MinOf(At(k)) <= MinOf(At(j))]

\* The first country of the list that occurs in the text; <<>> is None.
extract_origin(text) ==
    IF text = NA THEN <<>>
    ELSE LET t == Upper(text)
             I == {k \in 1..Len(countries) : Contains(t, countries[k])}
         IN  IF I = {} THEN <<>> ELSE countries[MinOf(I)]

\* CAT\.\s*(I|II|III|1|2|3) at position i: last index of the match, 0 if none.
\* The alternation takes its first alternative that matches, so the grade is
\* a single character.
CatMatchAt(t, i) ==
    IF LitAt(t, i, <<"C", "A", "T", ".">>)
    THEN LET g == SpaceRunEnd(t, i + 4) + 1
         IN  IF g <= Len(t) /\ t[g] \in {"I", "1", "2", "3"} THEN g ELSE 0
    ELSE 0

\* (\d{2})-(\d{2})MM and (\d{2})-(\d{2})\s*MM at position i.
CalibreMatchAt(t, i, spaces) ==
    IF /\ i + 4 <= Len(t)
       /\ IsDigit(t[i]) /\ IsDigit(t[i + 1]) /\ t[i + 2] = "-"
       /\ IsDigit(t[i + 3]) /\ IsDigit(t[i + 4])
    THEN LET m == IF spaces THEN SpaceRunEnd(t, i + 5) + 1 ELSE i + 5
         IN  IF LitAt(t, m, <<"M", "M">>) THEN m + 1 ELSE 0
    ELSE 0

NumQualityPatterns == 5

\* Pattern k of quality_patterns at position i: last index of the match.
QualityMatchAt(k, t, i) ==
    CASE k = 1 -> CatMatchAt(t, i)
      [] k = 2 -> IF LitAt(t, i, <<"E", "X", "T", "R", "A">>) THEN i + 4 ELSE 0
      [] k = 3 -> IF LitAt(t, i, <<"B", "I", "O">>) THEN i + 2 ELSE 0
      [] k = 4 -> CalibreMatchAt(t, i, FALSE)
      [] OTHER -> CalibreMatchAt(t, i, TRUE)

\* The loop over quality_patterns: match.group(0) of the first that matches.
RECURSIVE QualityFrom(_, _)
QualityFrom(k, t) ==
    IF k > NumQualityPatterns THEN <<>>
    ELSE LET I == {i \in 1..Len(t) : QualityMatchAt(k, t, i) > 0}
         IN  IF I = {} THEN QualityFrom(k + 1, t)
             ELSE SubSeq(t, MinOf(I), QualityMatchAt(k, t, MinOf(I)))

extract_quality(text) ==
    IF text = NA THEN <<>> ELSE QualityFrom(1, Upper(text))

(***************************************************************************)
(* Dates                                                                   *)
(***************************************************************************)
\* A cell of the date column: the raw text (kind "str") or, once converted,
\* a timestamp (kind "ts"); NaT is the null timestamp.
DateText(s) == [kind |-> "str", s |-> s, y |-> 0, m |-> 0, d |-> 0]
Timestamp(y, m, d) == [kind |-> "ts", s |-> <<>>, y |-> y, m |-> m, d |-> d]
NaT == Timestamp(0, 0, 0)
IsNaT(c) == c.kind = "ts" /\ c.y = 0

IsLeap(y) == (y % 4 = 0 /\ y % 100 # 0) \/ y % 400 = 0

DaysInMonth(y, m) ==
    IF m = 2 THEN (IF IsLeap(y) THEN 28 + 1 ELSE 28)
    ELSE IF m \in {4, 6, 9, 11} THEN 30 ELSE 30 + 1

\* Index of the first "-" of s at or after i; Len(s)+1 if none.
RECURSIVE DashFrom(_, _)
DashFrom(s, i) ==
    IF i > Len(s) \/ s[i] = "-" THEN i ELSE DashFrom(s, i + 1)

\* strptime with '%d-%m-%Y' on the whole text: day and month of one or two
\* digits, a four-digit year, and a day that exists; NaT otherwise (coerce).
ParseDate(s) ==
    LET p == DashFrom(s, 1)
        q == DashFrom(s, p + 1)
        ds == SubSeq(s, 1, p - 1)
        ms == SubSeq(s, p + 1, q - 1)
        ys == SubSeq(s, q + 1, Len(s))
    IN  IF /\ s # NA
           /\ q <= Len(s)
           /\ AllDigits(ds) /\ Len(ds) <= 2
           /\ AllDigits(ms) /\ Len(ms) <= 2
           /\ AllDigits(ys) /\ Len(ys) = 4
           /\ IntOf(ms) \in 1..12
           /\ IntOf(ds) >= 1
           /\ IntOf(ds) <= DaysInMonth(IntOf(ys), IntOf(ms))
        THEN Timestamp(IntOf(ys), IntOf(ms), IntOf(ds))
        ELSE NaT

\* pd.to_datetime(column, format='%d-%m-%Y', errors='coerce') on one cell: a
\* column that already holds timestamps is returned as it is.
to_datetime(c) == IF c.kind = "ts" THEN c ELSE ParseDate(c.s)

\* .dt.month and .dt.year: NaN for NaT
MonthOf(c) == IF IsNaT(c) THEN NaN ELSE Num(c.m)
YearOf(c) == IF IsNaT(c) THEN NaN ELSE Num(c.y)

(***************************************************************************)
(* Names                                                                   *)
(***************************************************************************)
LowerChar(c) ==
    IF \E i \in 1..Len(UpperChars) : UpperChars[i] = c
    THEN LowerChars[CHOOSE i \in 1..Len(UpperChars) : UpperChars[i] = c]
    ELSE c

Lower(t) == [i \in 1..Len(t) |-> LowerChar(t[i])]

IsLetter(c) ==
    \E i \in 1..Len(UpperChars) : UpperChars[i] = c \/ LowerChars[i] = c

\* str.strip()
RECURSIVE LStrip(_)
LStrip(t) == IF Len(t) > 0 /\ IsSpace(t[1]) THEN LStrip(Tail(t)) ELSE t

RECURSIVE RStrip(_)
RStrip(t) ==
    IF Len(t) > 0 /\ IsSpace(t[Len(t)]) THEN RStrip(SubSeq(t, 1, Len(t) - 1)) ELSE t

Strip(t) == RStrip(LStrip(t))

\* str.title(): a letter that follows a non-letter is upper-cased, every
\* other letter lower-cased.
Title(t) ==
    [i \in 1..Len(t) |->
        IF i = 1 \/ ~IsLetter(t[i - 1]) THEN UpperChar(t[i]) ELSE LowerChar(t[i])]

(***************************************************************************)
(* Record normalisation (AgroDataProcessor.clean_data)                     *)
(***************************************************************************)
\* The unit price without the test quantity > 0
UnitPriceUnguarded(price, quantity) ==
    IF ~IsNaN(price) /\ ~IsNaN(quantity)
    THEN FDiv(price, quantity)
    ELSE price

\* The unit price of one row.
UnitPrice(price, quantity) ==
    IF ~IsNaN(price) /\ ~IsNaN(quantity) /\ FGreater(quantity, Num(0))
    THEN FDiv(price, quantity)
    ELSE price

\* The columns clean_data computes for one row of its input.
CleanRow(r) ==
    LET q == extract_quantity(r.description)
        p == clean_price_text(r.description)
    IN  [product |-> r.product,
         date |-> to_datetime(r.date),
         market |-> r.market,
         description |-> r.description,
         source_url |-> r.source_url,
         price |-> p,
         quantity |-> q.quantity,
         unit |-> q.unit,
         origin |-> extract_origin(r.description),
         quality |-> extract_quality(r.description),
         product_clean |-> Title(Strip(r.product)),
         market_clean |-> Title(Strip(r.market)),
         unit_price |-> UnitPrice(p, q.quantity)]

\* DataFrame.drop_duplicates(): the first of several rows equal in every
\* column is kept (nulls compare equal).
RECURSIVE drop_duplicates(_)
drop_duplicates(rows) ==
    IF Len(rows) = 0 THEN <<>>
    ELSE LET init == SubSeq(rows, 1, Len(rows) - 1)
             last == rows[Len(rows)]
         IN  IF \E i \in 1..Len(init) : init[i] = last
             THEN drop_duplicates(init)
             ELSE Append(drop_duplicates(init), last)

\* An unguarded int() of extract_quantity raises out of clean_data.
CleanRaises(rows) ==
    \E i \in 1..Len(rows) : extract_quantity(rows[i].description).raised

\* clean_data that drops the rows whose date did not parse
clean_data_dropna_date(rows) ==
    drop_duplicates(SelectSeq([i \in 1..Len(rows) |-> CleanRow(rows[i])],
                              LAMBDA r : ~IsNaT(r.date)))

\* clean_data without the removal of duplicates
clean_data_keep_all(rows) == [i \in 1..Len(rows) |-> CleanRow(rows[i])]

clean_data(rows) == drop_duplicates([i \in 1..Len(rows) |-> CleanRow(rows[i])])

(***************************************************************************)
(* Enrichment (AgroDataProcessor.add_derived_features)                     *)
(***************************************************************************)
\* get_season with December left out of the winter months
get_season_no_december(month) ==
    IF month \in {Num(1), Num(2)} THEN "Hiver"
    ELSE IF month \in {Num(3), Num(4), Num(5)} THEN "Printemps"
    ELSE IF month \in {Num(6), Num(7), Num(8)} THEN "Ete"
    ELSE "Automne"

\* get_season leaving the season of an undefined month undefined
get_season_na(month) ==
    IF IsNaN(month) THEN "NaN"
    ELSE IF month \in {Num(12), Num(1), Num(2)} THEN "Hiver"
    ELSE IF month \in {Num(3), Num(4), Num(5)} THEN "Printemps"
    ELSE IF month \in {Num(6), Num(7), Num(8)} THEN "Ete"
    ELSE "Automne"

get_season(month) ==
    IF month \in {Num(12), Num(1), Num(2)} THEN "Hiver"
    ELSE IF month \in {Num(3), Num(4), Num(5)} THEN "Printemps"
    ELSE IF month \in {Num(6), Num(7), Num(8)} THEN "Ete"
    ELSE "Automne"

\* get_season of demo_data.py
demo_get_season(month) ==
    IF month \in {Num(12), Num(1), Num(2)} THEN "Hiver"
    ELSE IF month \in {Num(3), Num(4), Num(5)} THEN "Printemps"
    ELSE IF month \in {Num(6), Num(7), Num(8)} THEN "Ete"
    ELSE "Automne"

\* The taxonomy, in dictionary order.
categories ==
    << [category |-> "Legumes",
        keywords |-> {<<"t", "o", "m", "a", "t", "e">>,
                     <<"c", "a", "r", "o", "t", "t", "e">>,
                     <<"s", "a", "l", "a", "d", "e">>,
                     <<"c", "h", "o", "u">>,
                     <<"p", "o", "i", "v", "r", "e">>,
                     <<"o", "i", "g", "n", "o", "n">>,
                     <<"a", "i", "l">>}],
       [category |-> "Fruits",
        keywords |-> {<<"p", "o", "m", "m", "e">>,
                     <<"p", "o", "i", "r", "e">>,
                     <<"o", "r", "a", "n", "g", "e">>,
                     <<"c", "i", "t", "r", "o", "n">>,
                     <<"f", "r", "a", "i", "s", "e">>,
                     <<"c", "e", "r", "i", "s", "e">>}],
       [category |-> "Viande",
        keywords |-> {<<"b", "<oe>", "u", "f">>,
                     <<"p", "o", "r", "c">>,
                     <<"v", "e", "a", "u">>,
                     <<"a", "g", "n", "e", "a", "u">>,
                     <<"p", "o", "u", "l", "e", "t">>,
                     <<"d", "i", "n", "d", "e">>}],
       [category |-> "Produits laitiers",
        keywords |-> {<<"b", "e", "u", "r", "r", "e">>,
                     <<"f", "r", "o", "m", "a", "g", "e">>,
                     <<"<oe>", "u", "f">>,
                     <<"l", "a", "i", "t">>}] >>

\* categorize_product answering the category of the keyword that stands
\* first in the name
categorize_product_leftmost(product_name) ==
    LET t == Lower(product_name)
        At(k) == {i \in 1..Len(t) : \E w \in categories[k].keywords : LitAt(t, i, w)}
        I == {k \in 1..Len(categories) : At(k) # {}}
    IN  IF I = {} THEN "Autre"
        ELSE categories[CHOOSE k \in I : \A j \in I :
                            \/ MinOf(At(k)) < MinOf(At(j))
                            \/ MinOf(At(k)) = MinOf(At(j)) /\ k <= j].category

categorize_product(product_name) ==
    LET t == Lower(product_name)
        I == {k \in 1..Len(categories) :
                \E w \in categories[k].keywords : Contains(t, w)}
    IN  IF I = {} THEN "Autre" ELSE categories[MinOf(I)].category

\* pd.cut(price, bins=[0, 2, 5, 10, 20, inf], labels=...): right-closed
\* intervals (0, 2], (2, 5], ...; a price in no interval, or a null price,
\* gets the null category.
price_cut(price) ==
    IF IsNaN(price) \/ ~FGreater(price, Num(0)) THEN "NaN"
    ELSE IF ~FGreater(price, Num(2)) THEN "<2EUR"
    ELSE IF ~FGreater(price, Num(5)) THEN "2-5EUR"
    ELSE IF ~FGreater(price, Num(10)) THEN "5-10EUR"
    ELSE IF ~FGreater(price, Num(20)) THEN "10-20EUR"
    ELSE ">20EUR"

\* get_price_category of demo_data.py
demo_get_price_category(price) ==
    IF FLess(price, Num(2)) THEN "<2EUR"
    ELSE IF FLess(price, Num(5)) THEN "2-5EUR"
    ELSE IF FLess(price, Num(10)) THEN "5-10EUR"
    ELSE IF FLess(price, Num(20)) THEN "10-20EUR"
    ELSE ">20EUR"

\* The columns add_derived_features adds to one row; anyPrice tells whether
\* some row of the batch has a price.
EnrichRow(r, anyPrice) ==
    r @@ [month |-> MonthOf(r.date),
          year |-> YearOf(r.date),
          season |-> get_season(MonthOf(r.date)),
          product_category |-> categorize_product(r.product_clean),
          price_category |-> IF anyPrice THEN price_cut(r.price) ELSE "Non disponible"]

add_derived_features(rows) ==
    LET anyPrice == \E i \in 1..Len(rows) : ~IsNaN(rows[i].price)
    IN  [i \in 1..Len(rows) |-> EnrichRow(rows[i], anyPrice)]

(***************************************************************************)
(* State                                                                   *)
(***************************************************************************)
VARIABLES
    pc,      \* stage reached: "raw", "clean", "recleaned", "enriched",
             \* "analyzed", "error"
    raw,     \* the batch of raw records
    clean,   \* clean_data(raw)
    clean2,  \* clean_data(clean): the output normalised once more
    df,      \* the enriched table the analyzers are given
    res,     \* what the last analyzer call returned
    adv,     \* AdvancedFeatures.df: the table of the instance `advanced`
    inter,   \* InteractiveFeatures.df: the table of the instance `interactive`
    calls,   \* the analyzer calls of the session, begun or returned
    main     \* the run of main.py: mode, stages begun and ended, exit status

vars == <<pc, raw, clean, clean2, df, res, adv, inter, calls, main>>

\* The state of a dashboard session
session == <<adv, inter, calls>>

NoResult == [analyzer |-> "none"]

\* main.py at its first line: no mode yet, no stage begun, no exit status
NotStarted ==
    [pc |-> "start", mode |-> "none", collected |-> <<>>, plots |-> 0,
     started |-> <<>>, ended |-> <<>>, error_printed |-> FALSE,
     success |-> <<>>, exit |-> <<>>]

\* main.py is not run at all
NoRun == [NotStarted EXCEPT !.pc = "idle"]

RawRecord(product, date, market, description) ==
    [product |-> product, date |-> DateText(date), market |-> market,
     description |-> description, source_url |-> "url"]

(***************************************************************************)
(* Pipeline stages                                                         *)
(***************************************************************************)
\* The caller's table once clean_data(df) has returned: the columns are
\* written to clean_df = df.copy().
InputAfterCleanData(rows) == rows

\* The caller's table once add_derived_features(df) has returned: the
\* columns are written to the local df = df.copy().
InputAfterAddDerivedFeatures(rows) == rows

\* processor.clean_data(df) on the raw batch
CleanData ==
    /\ pc = "raw"
    /\ IF CleanRaises(raw)
       THEN pc' = "error" /\ clean' = clean
       ELSE pc' = "clean" /\ clean' = clean_data(raw)
    /\ raw' = InputAfterCleanData(raw)
    /\ UNCHANGED <<clean2, df, res, session, main>>

\* processor.clean_data on its own output
ReClean ==
    /\ pc = "clean"
    /\ IF CleanRaises(clean)
       THEN pc' = "error" /\ clean2' = clean2
       ELSE pc' = "recleaned" /\ clean2' = clean_data(clean)
    /\ clean' = InputAfterCleanData(clean)
    /\ UNCHANGED <<raw, df, res, session, main>>

\* processor.add_derived_features(clean_df)
AddDerivedFeatures ==
    /\ pc = "clean"
    /\ pc' = "enriched"
    /\ df' = add_derived_features(clean)
    /\ clean' = InputAfterAddDerivedFeatures(clean)
    /\ UNCHANGED <<raw, clean2, res, session, main>>

(***************************************************************************)
(* Series statistics (pandas / numpy)                                      *)
(***************************************************************************)
RECURSIVE FSum(_)
FSum(xs) == IF Len(xs) = 0 THEN Num(0) ELSE FAdd(xs[1], FSum(Tail(xs)))

\* Series.dropna()
RECURSIVE DropNaN(_)
DropNaN(xs) ==
    IF Len(xs) = 0 THEN <<>>
    ELSE IF IsNaN(xs[1]) THEN DropNaN(Tail(xs))
    ELSE <<xs[1]>> \o DropNaN(Tail(xs))

HasNaN(xs) == \E i \in 1..Len(xs) : IsNaN(xs[i])

\* np.mean: the plain mean, NaN as soon as one entry is NaN or none is there
NpMean(xs) == IF Len(xs) = 0 THEN NaN ELSE FDiv(FSum(xs), Num(Len(xs)))

\* Series.mean(): nulls skipped
Mean(xs) == NpMean(DropNaN(xs))

\* Sum of the squared deviations from the mean
SqDev(xs) ==
    LET m == NpMean(xs)
    IN  FSum([i \in 1..Len(xs) |-> FMul(FSub(xs[i], m), FSub(xs[i], m))])

\* Series.var() (ddof = 1, nulls skipped); Series.std() is its square root
Var(xs) ==
    LET v == DropNaN(xs)
    IN  IF Len(v) < 2 THEN NaN ELSE FDiv(SqDev(v), Num(Len(v) - 1))

\* Series.min() / Series.max(), nulls skipped
FMin(xs) ==
    LET v == DropNaN(xs)
    IN  IF Len(v) = 0 THEN NaN
        ELSE v[CHOOSE i \in 1..Len(v) : \A j \in 1..Len(v) : ~FLess(v[j], v[i])]

FMax(xs) ==
    LET v == DropNaN(xs)
    IN  IF Len(v) = 0 THEN NaN
        ELSE v[CHOOSE i \in 1..Len(v) : \A j \in 1..Len(v) : ~FLess(v[i], v[j])]

\* xs in increasing order
RECURSIVE FInsert(_, _)
FInsert(sorted, x) ==
    IF Len(sorted) = 0 THEN <<x>>
    ELSE IF FLess(x, sorted[1]) THEN <<x>> \o sorted
    ELSE <<sorted[1]>> \o FInsert(Tail(sorted), x)

RECURSIVE FSort(_)
FSort(xs) ==
    IF Len(xs) = 0 THEN <<>>
    ELSE FInsert(FSort(SubSeq(xs, 1, Len(xs) - 1)), xs[Len(xs)])

\* Series.quantile(num/den): linear interpolation between the order
\* statistics, nulls skipped
Quantile(xs, num, den) ==
    LET v == FSort(DropNaN(xs))
        n == Len(v)
    IN  IF n = 0 THEN NaN
        ELSE LET h == (n - 1) * num
                 k == h \div den
                 f == Frac(h % den, den)
             IN  IF h % den = 0 THEN v[k + 1]
                 ELSE FAdd(v[k + 1], FMul(f, FSub(v[k + 2], v[k + 1])))

(***************************************************************************)
(* Tables                                                                  *)
(***************************************************************************)
Column(rows, c) == [i \in 1..Len(rows) |-> rows[i][c]]

\* rows[rows[c] == v]
RECURSIVE Filter(_, _, _)
Filter(rows, c, v) ==
    IF Len(rows) = 0 THEN <<>>
    ELSE IF rows[1][c] = v THEN <<rows[1]>> \o Filter(Tail(rows), c, v)
    ELSE Filter(Tail(rows), c, v)

\* Series.unique(): the values in order of first appearance
RECURSIVE Unique(_)
Unique(xs) ==
    IF Len(xs) = 0 THEN <<>>
    ELSE LET init == SubSeq(xs, 1, Len(xs) - 1)
             u == Unique(init)
         IN  IF \E i \in 1..Len(init) : init[i] = xs[Len(xs)]
             THEN u ELSE Append(u, xs[Len(xs)])

\* The sort key of a timestamp
DateKey(c) == (c.y * 12 + c.m) * 32 + c.d

\* r sorts before the row q (sort_values('date'): NaT last)
DateBefore(r, q) ==
    /\ ~IsNaT(r.date)
    /\ (IsNaT(q.date) \/ DateKey(r.date) < DateKey(q.date))

RECURSIVE InsertByDate(_, _)
InsertByDate(sorted, r) ==
    IF Len(sorted) = 0 THEN <<r>>
    ELSE IF DateBefore(r, sorted[1]) THEN <<r>> \o sorted
    ELSE <<sorted[1]>> \o InsertByDate(Tail(sorted), r)

\* DataFrame.sort_values('date'): rows of equal date keep their order
RECURSIVE sort_values(_)
sort_values(rows) ==
    IF Len(rows) = 0 THEN <<>>
    ELSE InsertByDate(sort_values(SubSeq(rows, 1, Len(rows) - 1)), rows[Len(rows)])

\* date.toordinal()
RECURSIVE DaysBefore(_, _)
DaysBefore(y, m) == IF m = 1 THEN 0 ELSE DaysBefore(y, m - 1) + DaysInMonth(y, m - 1)

Ordinal(c) ==
    LET y == c.y - 1
    IN  365 * y + (y \div 4) - (y \div 100) + (y \div 400) + DaysBefore(c.y, c.m) + c.d

\* .dt.dayofweek (Monday is 0) and .dt.quarter; NaN for NaT
DayOfWeek(c) == IF IsNaT(c) THEN NaN ELSE Num((Ordinal(c) + 6) % 7)
Quarter(c) == IF IsNaT(c) THEN NaN ELSE Num(((c.m - 1) \div 3) + 1)

\* Number of ISO weeks of year y
IsoWeeks(y) ==
    LET P(z) == (z + (z \div 4) - (z \div 100) + (z \div 400)) % 7
    IN  IF P(y) = 4 \/ P(y - 1) = 3 THEN 53 ELSE 52

\* .dt.isocalendar().week
WeekOfYear(c) ==
    IF IsNaT(c) THEN NaN
    ELSE LET doy == DaysBefore(c.y, c.m) + c.d
             wd == ((Ordinal(c) + 6) % 7) + 1
             w == (doy - wd + 10) \div 7
         IN  IF w < 1 THEN Num(IsoWeeks(c.y - 1))
             ELSE IF w > IsoWeeks(c.y) THEN Num(1)
             ELSE Num(w)

(***************************************************************************)
(* AdvancedFeatures                                                        *)
(***************************************************************************)
\* AdvancedFeatures.__init__: the analyzers' own copy of the table, with the
\* calendar columns prepare_advanced_data adds.
prepare_advanced_data(rows) ==
    [i \in 1..Len(rows) |->
        rows[i] @@ [day_of_week |-> DayOfWeek(rows[i].date),
                    week_of_year |-> WeekOfYear(rows[i].date),
                    quarter |-> Quarter(rows[i].date)]]


\* np.polyfit(x, prices, 1)[0] for x = 0, 1, ..., n-1 and finite prices: the
\* least-squares slope.
Slope(prices) ==
    LET n == Len(prices)
        sx == FSum([i \in 1..n |-> Num(i - 1)])
        sxx == FSum([i \in 1..n |-> Num((i - 1) * (i - 1))])
        sy == FSum(prices)
        sxy == FSum([i \in 1..n |-> FMul(Num(i - 1), prices[i])])
    IN  FDiv(FSub(FMul(Num(n), sxy), FMul(sx, sy)),
             FSub(FMul(Num(n), sxx), FMul(sx, sx)))

\* What LAPACK's least squares does with a NaN among the prices depends on
\* the build: the fit returns NaN coefficients, or raises LinAlgError.
PolyfitOnNaN == {"nan", "raise"}

\* calculate_price_trend raises (never, unless the build raises on NaN)
TrendRaises(product_data, lapack) ==
    /\ Len(product_data) >= 2
    /\ HasNaN(Column(product_data, "price"))
    /\ lapack = "raise"

calculate_price_trend(product_data) ==
    IF Len(product_data) < 2 THEN Num(0)
    ELSE LET prices == Column(sort_values(product_data), "price")
             slope == IF HasNaN(prices) THEN NaN ELSE Slope(prices)
             mean_price == NpMean(prices)
         IN  FMul(FDiv(slope, mean_price), Num(100))

\* A score a - sqrt(c), with a and c exact fractions: the sentiment score
\* 50 + 10 trend + 5 stability - 20 volatility, where volatility is the
\* square root of the fraction volatility_sq.
Surd(a, c) == [a |-> a, c |-> c]

\* The sign of y * y - c for y >= 0 and c >= 0, neither NaN: y is compared
\* with c / y, so that no square is formed.
SqCmp(y, c) ==
    IF y.d = 0 THEN (IF c.d = 0 THEN 0 ELSE 1)
    ELSE IF c.d = 0 THEN -1
    ELSE IF y.n = 0 THEN (IF c.n = 0 THEN 0 ELSE -1)
    ELSE LET q == FDiv(c, y)
         IN  CmpFrac(y.n, y.d, q.n, q.d)

\* a - sqrt(c) >= t and a - sqrt(c) > t
SurdGE(x, t) ==
    /\ ~FLess(x.a, t)
    /\ SqCmp(FSub(x.a, t), x.c) >= 0

SurdGT(x, t) ==
    /\ FGreater(x.a, t)
    /\ SqCmp(FSub(x.a, t), x.c) > 0

SurdIsNaN(x) == IsNaN(x.a) \/ IsNaN(x.c)

\* max(0, min(100, score)) of Python: min keeps 100 unless score < 100, max
\* keeps 0 unless the minimum is > 0, so a NaN score becomes 100.
ClampScore(x) ==
    IF SurdIsNaN(x) \/ SurdGE(x, Num(100)) THEN Surd(Num(100), Num(0))
    ELSE IF SurdGT(x, Num(0)) THEN x
    ELSE Surd(Num(0), Num(0))

get_sentiment_recommendation(score) ==
    IF SurdGE(score, Num(70)) THEN "Fort - Achat recommande"
    ELSE IF SurdGE(score, Num(50)) THEN "Modere - Surveillance"
    ELSE IF SurdGE(score, Num(30)) THEN "Faible - Prudence"
    ELSE "Tres faible - Eviter"

StabilityWindow == 30

\* One row of the sentiment table
SentimentRow(product, product_data) ==
    LET prices == Column(product_data, "price")
        mean == Mean(prices)
        volatility_sq == FDiv(Var(prices), FMul(mean, mean))
        trend == calculate_price_trend(product_data)
        stability == Frac(Len(product_data), StabilityWindow)
        score == ClampScore(
                    Surd(FAdd(FAdd(Num(50), FMul(trend, Num(10))),
                              FMul(stability, Num(5))),
                         FMul(Num(400), volatility_sq)))
    IN  [product |-> product,
         sentiment_score |-> score,
         volatility_sq |-> volatility_sq,
         trend |-> trend,
         stability |-> stability,
         recommendation |-> get_sentiment_recommendation(score)]

\* The products of the table, in order of first appearance
Products(rows) == Unique(Column(rows, "product_clean"))

ProductData(rows, product) == Filter(rows, "product_clean", product)

\* create_market_sentiment_analyzer: one row per product, unless the trend
\* of some product raises.
create_market_sentiment_analyzer(rows, lapack) ==
    LET ps == Products(rows)
    IN  IF \E k \in 1..Len(ps) : TrendRaises(ProductData(rows, ps[k]), lapack)
        THEN [raised |-> TRUE, rows |-> <<>>]
        ELSE [raised |-> FALSE,
              rows |-> [k \in 1..Len(ps) |->
                          SentimentRow(ps[k], ProductData(rows, ps[k]))]]

\* All subsets of I with at most k elements
RECURSIVE KSubsets(_, _)
KSubsets(I, k) ==
    IF k = 0 THEN {{}}
    ELSE LET S == KSubsets(I, k - 1)
         IN  S \cup {T \cup {i} : T \in S, i \in I}

AnomalyMinObs == 10

\* contamination = 0.1, in percent
ContaminationPct == 10

\* The labelling of a forest with contamination 0.5
MaxFlaggedHalf(n) == (50 * (n - 1) + 99) \div 100

\* IsolationForest(contamination).fit_predict labels -1 the rows whose score
\* lies strictly below the contamination percentile of the n scores, which
\* linear interpolation places at rank contamination * (n - 1): at most the
\* ceiling of that rank many rows, whichever they are.
MaxFlagged(n) == (ContaminationPct * (n - 1) + 99) \div 100

\* scikit-learn's input validation: a NaN among the features raises
\* ValueError in the builds that validate; later builds may accept it.
SklearnOnNaN == {"raise", "accept"}

AnomalyFeaturesNaN(product_data) ==
    \E i \in 1..Len(product_data) :
        \/ IsNaN(product_data[i].price)
        \/ IsNaN(product_data[i].month)
        \/ IsNaN(product_data[i].day_of_week)

\* (price - mean)^2 > 4 var, the 2-sigma test of get_anomaly_reason
get_anomaly_reason(record, product_data) ==
    LET prices == Column(product_data, "price")
        dev == FSub(record.price, Mean(prices))
        far == FGreater(FMul(dev, dev), FMul(Num(4), Var(prices)))
    IN  IF FGreater(dev, Num(0)) /\ far THEN "Prix anormalement eleve"
        ELSE IF FLess(dev, Num(0)) /\ far THEN "Prix anormalement bas"
        ELSE "Pattern inhabituel detecte"

\* The anomaly rows of one product for the flagged positions F of its rows
\* (pos, the position of the record among the product's rows, keeps apart
\* two records that agree on the reported columns)
AnomalyRows(product, product_data, F) ==
    LET idx == {i \in 1..Len(product_data) : i \in F}
        Row(i) == [product |-> product,
                   pos |-> i,
                   date |-> product_data[i].date,
                   price |-> product_data[i].price,
                   market |-> product_data[i].market_clean,
                   reason |-> get_anomaly_reason(product_data[i], product_data)]
    IN  {Row(i) : i \in idx}

\* The guard with the threshold one too low
TooFewOffByOne(product_data) == Len(product_data) < AnomalyMinObs - 1

\* if len(product_data) < 10: continue
TooFewForAnomaly(product_data) == Len(product_data) < AnomalyMinObs

\* The products the detector fits: those with enough rows
AnomalyFitted(rows) ==
    LET ps == Products(rows)
    IN  {ps[k] : k \in {j \in 1..Len(ps) :
                          ~TooFewForAnomaly(ProductData(rows, ps[j]))}}

\* The loop of create_price_anomaly_detector over the products ps[k..]: every
\* table of anomalies the forest's labelling may produce, with the products
\* a forest was fitted for.
RECURSIVE AnomalyTables(_, _, _)
AnomalyTables(rows, ps, k) ==
    IF k > Len(ps) THEN {[rows |-> {}, fitted |-> {}]}
    ELSE LET product_data == ProductData(rows, ps[k])
             rest == AnomalyTables(rows, ps, k + 1)
         IN  IF TooFewForAnomaly(product_data) THEN rest
             ELSE {[rows |-> AnomalyRows(ps[k], product_data, F) \cup t.rows,
                    fitted |-> {ps[k]} \cup t.fitted] :
                      F \in KSubsets(1..Len(product_data),
                                     MaxFlagged(Len(product_data))),
                      t \in rest}

\* create_price_anomaly_detector on the instance table: a fitted product
\* with a NaN feature raises out of the detector when scikit-learn validates.
AnomalyRaises(rows, sklearn) ==
    /\ sklearn = "raise"
    /\ \E p \in AnomalyFitted(rows) : AnomalyFeaturesNaN(ProductData(rows, p))

ElasticityMinObs == 5

\* np.diff(prices) / prices[:-1]
PriceChanges(prices) ==
    [i \in 1..(Len(prices) - 1) |->
        FDiv(FSub(prices[i + 1], prices[i]), prices[i])]

\* np.corrcoef(x, y)[0, 1], squared: cov^2 / (var x * var y); NaN when an
\* entry is not finite or one of the two series is constant (0/0)
CorrSq(x, y) ==
    IF \E i \in 1..Len(x) : ~IsFinite(x[i]) \/ ~IsFinite(y[i]) THEN NaN
    ELSE LET mx == NpMean(x)
             my == NpMean(y)
             cov == FSum([i \in 1..Len(x) |->
                            FMul(FSub(x[i], mx), FSub(y[i], my))])
         IN  FDiv(FMul(cov, cov), FMul(SqDev(x), SqDev(y)))

get_elasticity_category_sq(elasticity_sq) ==
    IF FGreater(elasticity_sq, Frac(64, 100)) THEN "Tres elastique"
    ELSE IF FGreater(elasticity_sq, Frac(25, 100)) THEN "Elastique"
    ELSE IF FGreater(elasticity_sq, Frac(4, 100)) THEN "Peu elastique"
    ELSE "Inelastique"

get_price_sensitivity_sq(elasticity_sq) ==
    IF FGreater(elasticity_sq, Frac(49, 100)) THEN "Tres sensible"
    ELSE IF FGreater(elasticity_sq, Frac(16, 100)) THEN "Sensible"
    ELSE "Peu sensible"

\* The elasticity without the replacement of NaN by 0
ElasticitySqNaN(product_data) ==
    LET prices == Column(sort_values(product_data), "price")
        price_changes == PriceChanges(prices)
        n == Len(price_changes)
    IN  CorrSq(SubSeq(price_changes, 2, n), SubSeq(price_changes, 1, n - 1))

\* The elasticity of one product: abs(corrcoef) with NaN replaced by 0,
\* kept as its square.
ElasticitySq(product_data) ==
    LET prices == Column(sort_values(product_data), "price")
        price_changes == PriceChanges(prices)
        n == Len(price_changes)
        e == CorrSq(SubSeq(price_changes, 2, n), SubSeq(price_changes, 1, n - 1))
    IN  IF IsNaN(e) THEN Num(0) ELSE e

\* The loop of create_price_elasticity_analyzer over the products ps[k..]
RECURSIVE ElasticityFrom(_, _, _)
ElasticityFrom(rows, ps, k) ==
    IF k > Len(ps) THEN <<>>
    ELSE LET product_data == ProductData(rows, ps[k])
             rest == ElasticityFrom(rows, ps, k + 1)
         IN  IF Len(product_data) < ElasticityMinObs THEN rest
             ELSE LET e == ElasticitySq(product_data)
                  IN  <<[product |-> ps[k],
                         elasticity_sq |-> e,
                         elasticity_category |-> get_elasticity_category_sq(e),
                         price_sensitivity |-> get_price_sensitivity_sq(e)]>> \o rest

\* The loop without the test of the number of observations
RECURSIVE ElasticityOfAll(_, _, _)
ElasticityOfAll(rows, ps, k) ==
    IF k > Len(ps) THEN <<>>
    ELSE LET e == ElasticitySq(ProductData(rows, ps[k]))
         IN  <<[product |-> ps[k],
                elasticity_sq |-> e,
                elasticity_category |-> get_elasticity_category_sq(e),
                price_sensitivity |-> get_price_sensitivity_sq(e)]>>
             \o ElasticityOfAll(rows, ps, k + 1)

create_price_elasticity_analyzer_all(rows) == ElasticityOfAll(rows, Products(rows), 1)

create_price_elasticity_analyzer(rows) == ElasticityFrom(rows, Products(rows), 1)

(***************************************************************************)
(* InteractiveFeatures.create_alert_system                                 *)
(***************************************************************************)
\* Series.pct_change() fills a null price with the last valid one before it
\* divides ("pad", the default up to pandas 2) or leaves it null ("none",
\* the default from pandas 3 on).
PctChangeFill == {"pad", "none"}

\* Series.ffill()
RECURSIVE FFill(_)
FFill(xs) ==
    IF Len(xs) <= 1 THEN xs
    ELSE LET init == FFill(SubSeq(xs, 1, Len(xs) - 1))
             last == xs[Len(xs)]
         IN  Append(init, IF IsNaN(last) THEN init[Len(init)] ELSE last)

\* Series.pct_change() * 100: data / data.shift(1) - 1, in percent
pct_change(prices, fill) ==
    LET data == IF fill = "pad" THEN FFill(prices) ELSE prices
    IN  [i \in 1..Len(prices) |->
            IF i = 1 THEN NaN
            ELSE FMul(FSub(FDiv(data[i], data[i - 1]), Num(1)), Num(100))]

\* round(x, 2): to the nearest hundredth, ties to even
Round2(x) ==
    IF ~IsFinite(x) THEN x
    ELSE LET a == Abs(x.n) * 100
             q == a \div x.d
             r == a % x.d
             up == 2 * r > x.d \/ (2 * r = x.d /\ q % 2 = 1)
         IN  Frac(Sign(x.n) * (IF up THEN q + 1 ELSE q), 100)

MinAlertObs == 2

\* date.strftime raises on NaT; the handler's except clause catches it
StrftimeRaises(row) == IsNaT(row.date)

\* The positions (in date order) with a significant variation
SignificantChanges(product_data, threshold_percent, fill) ==
    LET pct == pct_change(Column(product_data, "price"), fill)
    IN  {i \in 1..Len(product_data) : FGreater(FAbs(pct[i]), Num(threshold_percent))}

\* The Tukey fences q75 + 1.5 iqr and q25 - 1.5 iqr
UpperFence(prices) ==
    LET q75 == Quantile(prices, 3, 4)
        q25 == Quantile(prices, 1, 4)
    IN  FAdd(q75, FMul(Frac(3, 2), FSub(q75, q25)))

LowerFence(prices) ==
    LET q75 == Quantile(prices, 3, 4)
        q25 == Quantile(prices, 1, 4)
    IN  FSub(q25, FMul(Frac(3, 2), FSub(q75, q25)))

Outliers(product_data) ==
    LET prices == Column(product_data, "price")
    IN  {i \in 1..Len(product_data) :
            \/ FGreater(prices[i], UpperFence(prices))
            \/ FLess(prices[i], LowerFence(prices))}

\* The alerts for the positions in I, in increasing order
RECURSIVE AlertsOf(_, _, _, _)
AlertsOf(I, product_data, pct, kind) ==
    IF I = {} THEN <<>>
    ELSE LET i == MinOf(I)
             row == product_data[i]
             prices == Column(product_data, "price")
             type == IF kind = "variation" THEN "variation_significative"
                     ELSE IF FGreater(row.price, UpperFence(prices)) THEN "prix_eleve"
                     ELSE "prix_bas"
         IN  <<[type |-> type,
                pos |-> i,
                date |-> row.date,
                prix |-> row.price,
                variation |-> IF kind = "variation" THEN Round2(pct[i]) ELSE NaN,
                marche |-> row.market_clean]>>
             \o AlertsOf(I \ {i}, product_data, pct, kind)

create_alert_system(rows, product, threshold_percent, fill) ==
    LET product_data == sort_values(ProductData(rows, product))
        prices == Column(product_data, "price")
        pct == pct_change(prices, fill)
        sig == SignificantChanges(product_data, threshold_percent, fill)
        out == Outliers(product_data)
    IN  IF Len(product_data) < MinAlertObs
        THEN [alerts |-> <<>>, message |-> "Pas assez de donnees", stats |-> <<>>]
        ELSE IF \E i \in sig \cup out : StrftimeRaises(product_data[i])
        THEN [alerts |-> <<>>, message |-> "Erreur", stats |-> <<>>]
        ELSE [alerts |-> AlertsOf(sig, product_data, pct, "variation")
                         \o AlertsOf(out, product_data, pct, "outlier"),
              message |-> "alertes trouvees",
              stats |-> <<[prix_moyen |-> Mean(prices),
                           prix_min |-> FMin(prices),
                           prix_max |-> FMax(prices),
                           volatilite_sq |-> Var(prices)]>>]

(***************************************************************************)
(* Market clustering                                                       *)
(***************************************************************************)
\* KMeans(n_clusters=4)
NumClusters == 4

\* The markets of the table, in order of first appearance
Markets(rows) == Unique(Column(rows, "market_clean"))

\* The features of one market; the volatility std / mean is kept squared
MarketFeatures(market, market_data) ==
    LET prices == Column(market_data, "price")
    IN  [market |-> market,
         avg_price |-> Mean(prices),
         price_volatility_sq |-> FDiv(Var(prices), FMul(Mean(prices), Mean(prices))),
         product_diversity |-> Len(Products(market_data)),
         observation_frequency |-> Len(market_data),
         avg_price_range |-> FSub(FMax(prices), FMin(prices))]

\* KMeans raises ValueError when there are fewer samples than clusters
TooFewForKMeans(market_features) == Len(market_features) < NumClusters

\* StandardScaler raises ValueError on an infinite feature, KMeans on a null
\* one
FeaturesNotFinite(market_features) ==
    \E k \in 1..Len(market_features) :
        \/ ~IsFinite(market_features[k].avg_price)
        \/ ~IsFinite(market_features[k].price_volatility_sq)
        \/ ~IsFinite(market_features[k].avg_price_range)

\* create_market_clustering: the features of the markets, unless the
\* scaler or KMeans raises.  The cluster labels are not modelled.
create_market_clustering(rows) ==
    LET ms == Markets(rows)
        market_features ==
            [k \in 1..Len(ms) |->
                MarketFeatures(ms[k], Filter(rows, "market_clean", ms[k]))]
    IN  IF TooFewForKMeans(market_features) \/ FeaturesNotFinite(market_features)
        THEN [raised |-> TRUE, rows |-> <<>>]
        ELSE [raised |-> FALSE, rows |-> market_features]

(***************************************************************************)
(* InteractiveFeatures: the price forecaster                               *)
(***************************************************************************)
\* Python's None
None == <<>>
Some(v) == <<v>>

\* The characters in code point order
CodePoints ==
    <<" ", "'", "(", ")", ",", "-", ".", "/">> \o DigitChars
        \o SubSeq(UpperChars, 1, 26) \o SubSeq(LowerChars, 1, 26)
        \o <<"<E-grave>", "<E-acute>", "<e-grave>", "<e-acute>", "<oe>", "<euro>">>

CharRank(c) ==
    IF \E i \in 1..Len(CodePoints) : CodePoints[i] = c
    THEN CHOOSE i \in 1..Len(CodePoints) : CodePoints[i] = c
    ELSE Len(CodePoints) + 1

\* a < b for two str values
RECURSIVE TextLess(_, _)
TextLess(a, b) ==
    IF Len(b) = 0 THEN FALSE
    ELSE IF Len(a) = 0 THEN TRUE
    ELSE IF CharRank(a[1]) # CharRank(b[1]) THEN CharRank(a[1]) < CharRank(b[1])
    ELSE TextLess(Tail(a), Tail(b))

\* The seasons in the order of their names as str values
SeasonOrder == <<"Automne", "Hiver", "Inconnu", "Printemps", "Ete">>

\* Series.astype(str) on one cell of a text column: None becomes 'None'
AsStr(v) == IF v = None \/ v = NA THEN <<"N", "o", "n", "e">> ELSE v

\* a sorts before b in the column col
ClassLess(col, a, b) ==
    IF col = "season"
    THEN (CHOOSE i \in 1..Len(SeasonOrder) : SeasonOrder[i] = a)
             < (CHOOSE i \in 1..Len(SeasonOrder) : SeasonOrder[i] = b)
    ELSE TextLess(AsStr(a), AsStr(b))

\* LabelEncoder().fit(column.astype(str)): the code of each value of the
\* column, its rank among the sorted distinct values
LabelCodes(rows, col) ==
    LET classes == {rows[i][col] : i \in 1..Len(rows)}
    IN  [v \in classes |-> Num(Cardinality({c \in classes : ClassLess(col, c, v)}))]

\* InteractiveFeatures.__init__: the forecaster's own copy of the table,
\* with the encoded columns prepare_data adds.
prepare_data(rows) ==
    LET le == [col \in {"product_clean", "market_clean", "origin", "quality", "season"}
                  |-> LabelCodes(rows, col)]
    IN  [i \in 1..Len(rows) |->
            rows[i] @@ [product_clean_encoded |-> le["product_clean"][rows[i].product_clean],
                        market_clean_encoded |-> le["market_clean"][rows[i].market_clean],
                        origin_encoded |-> le["origin"][rows[i].origin],
                        quality_encoded |-> le["quality"][rows[i].quality],
                        season_encoded |-> le["season"][rows[i].season]]]

\* The feature columns of the forest
features ==
    <<"month", "year", "product_clean_encoded", "market_clean_encoded",
      "origin_encoded", "quality_encoded", "season_encoded">>

\* if value: rows = rows[rows[col] == value]  (None and '' filter nothing)
FilterIf(rows, col, value) ==
    IF value = None THEN rows ELSE Filter(rows, col, value)

\* len(df_filtered) < 10
ForecastMinObs == 10

\* The forecaster without its test on the number of rows
TooFewNever(df_filtered) == FALSE

TooFewForForecast(df_filtered) == Len(df_filtered) < ForecastMinObs

\* A null among the feature cells
FeaturesNaN(rows) ==
    \E i \in 1..Len(rows), k \in 1..Len(features) : IsNaN(rows[i][features[k]])

\* What stops the training with an exception: a null target reaches fit or
\* mean_absolute_error (ValueError in every build), a null feature reaches
\* fit or predict (ValueError in the builds that validate).
TrainingRaises(df_filtered, sklearn) ==
    \/ HasNaN(Column(df_filtered, "price"))
    \/ sklearn = "raise" /\ FeaturesNaN(df_filtered)

\* price_prediction_model: the pair (result, error).  Of the result the
\* model keeps the sample size and the range of the targets, within which
\* every prediction of the forest lies.
price_prediction_model(rows, product, market, origin, sklearn) ==
    LET df_filtered ==
            FilterIf(FilterIf(FilterIf(rows, "product_clean", product),
                              "market_clean", market), "origin", origin)
        y == Column(df_filtered, "price")
    IN  IF TooFewForForecast(df_filtered)
        THEN [result |-> None,
              error |-> "Pas assez de donnees pour l'entrainement",
              fit_called |-> FALSE]
        ELSE IF TrainingRaises(df_filtered, sklearn)
        THEN [result |-> None,
              error |-> "Erreur lors de l'entrainement",
              fit_called |-> TRUE]
        ELSE [result |-> Some([sample_size |-> Len(df_filtered),
                               target_min |-> FMin(y),
                               target_max |-> FMax(y)]),
              error |-> "None",
              fit_called |-> TRUE]

\* date + timedelta(days=1), and date + timedelta(days=i); NaT stays NaT
NextDay(c) ==
    IF IsNaT(c) THEN c
    ELSE IF c.d < DaysInMonth(c.y, c.m) THEN Timestamp(c.y, c.m, c.d + 1)
    ELSE IF c.m < 12 THEN Timestamp(c.y, c.m + 1, 1)
    ELSE Timestamp(c.y + 1, 1, 1)

RECURSIVE AddDays(_, _)
AddDays(c, i) == IF i = 0 THEN c ELSE AddDays(NextDay(c), i - 1)

\* Series.max() of the date column: NaT skipped, NaT when nothing is left
MaxDate(rows) ==
    LET I == {i \in 1..Len(rows) : ~IsNaT(rows[i].date)}
    IN  IF I = {} THEN NaT
        ELSE rows[CHOOSE i \in I :
                     \A j \in I : DateKey(rows[j].date) <= DateKey(rows[i].date)].date

\* The step of predict_future_prices for one future date raises: the means
\* of a month without rows are null and reach predict, or the date is NaT
\* and reaches strftime.
PredictionRaises(rows, date, sklearn) ==
    \/ IsNaT(date)
    \/ /\ sklearn = "raise"
       /\ \A i \in 1..Len(rows) : rows[i].month # Num(date.m)

\* The encoded columns, whose means stand in for the categorical features
EncodedColumns ==
    {"product_clean_encoded", "market_clean_encoded", "origin_encoded",
     "quality_encoded", "season_encoded"}

\* self.df[self.df['date'].dt.month == month].mean(numeric_only=True), its
\* encoded columns: null when the table has no row of that month
AvgFeatures(rows, month) ==
    LET I == {i \in 1..Len(rows) : rows[i].month = Num(month)}
    IN  [c \in EncodedColumns |->
            IF I = {} THEN NaN
            ELSE FDiv(FSum([i \in 1..Len(rows) |->
                               IF i \in I THEN rows[i][c] ELSE Num(0)]),
                      Num(Cardinality(I)))]

\* predict_future_prices: the pair (predictions, error), and whether the
\* model was fitted.  A prediction carries its date, the features it was
\* built from and the range within which the forest's answer lies.
predict_future_prices(rows, days_ahead, product, sklearn) ==
    LET m == price_prediction_model(rows, product, None, None, sklearn)
        last_date == MaxDate(rows)
        future_dates == [i \in 1..days_ahead |-> AddDays(last_date, i)]
        avg == [mo \in {future_dates[i].m : i \in 1..days_ahead} |->
                   AvgFeatures(rows, mo)]
    IN  IF m.error # "None"
        THEN [result |-> None, error |-> m.error, fitted |-> FALSE]
        ELSE IF \E i \in 1..days_ahead : PredictionRaises(rows, future_dates[i], sklearn)
        THEN [result |-> None, error |-> "Erreur lors de la prediction", fitted |-> TRUE]
        ELSE [result |-> Some([i \in 1..days_ahead |->
                                  [date |-> future_dates[i],
                                   month |-> Num(future_dates[i].m),
                                   year |-> Num(future_dates[i].y),
                                   avg_features |-> avg[future_dates[i].m],
                                   predicted_min |-> m.result[1].target_min,
                                   predicted_max |-> m.result[1].target_max]]),
              error |-> "None", fitted |-> TRUE]

(***************************************************************************)
(* Analyzer calls                                                          *)
(***************************************************************************)
\* The analyzers read df and change nothing: one call on a table shows every
\* result a later call on it would give.
\* AdvancedFeatures(df).create_market_sentiment_analyzer()
Sentiment ==
    /\ pc = "enriched"
    /\ \E lapack \in PolyfitOnNaN :
          res' = [analyzer |-> "sentiment",
                  out |-> create_market_sentiment_analyzer(
                              prepare_advanced_data(df), lapack)]
    /\ pc' = "analyzed"
    /\ UNCHANGED <<raw, clean, clean2, df, session, main>>

\* AdvancedFeatures(df).create_price_anomaly_detector()
Anomaly ==
    /\ pc = "enriched"
    /\ \E sklearn \in SklearnOnNaN :
          LET rows == prepare_advanced_data(df)
          IN  IF AnomalyRaises(rows, sklearn)
              THEN res' = [analyzer |-> "anomaly", raised |-> TRUE,
                           rows |-> {}, fitted |-> {}]
              ELSE \E t \in AnomalyTables(rows, Products(rows), 1) :
                      res' = [analyzer |-> "anomaly", raised |-> FALSE,
                              rows |-> t.rows, fitted |-> t.fitted]
    /\ pc' = "analyzed"
    /\ UNCHANGED <<raw, clean, clean2, df, session, main>>

\* AdvancedFeatures(df).create_price_elasticity_analyzer()
Elasticity ==
    /\ pc = "enriched"
    /\ res' = [analyzer |-> "elasticity",
               rows |-> create_price_elasticity_analyzer(prepare_advanced_data(df))]
    /\ pc' = "analyzed"
    /\ UNCHANGED <<raw, clean, clean2, df, session, main>>

\* AdvancedFeatures(df).create_market_clustering()
Clustering ==
    /\ pc = "enriched"
    /\ res' = [analyzer |-> "clustering",
               out |-> create_market_clustering(prepare_advanced_data(df))]
    /\ pc' = "analyzed"
    /\ UNCHANGED <<raw, clean, clean2, df, session, main>>

\* The thresholds the dashboard's slider offers: its minimum, its default
\* and its maximum
AlertThresholds == {5, 20, 50}

\* InteractiveFeatures(df).create_alert_system(product, threshold)
AlertSystem ==
    /\ pc = "enriched"
    /\ \E k \in 1..Len(Products(df)), threshold \in AlertThresholds,
          fill \in PctChangeFill :
          res' = [analyzer |-> "alerts",
                  product |-> Products(df)[k],
                  threshold |-> threshold,
                  out |-> create_alert_system(df, Products(df)[k], threshold, fill)]
    /\ pc' = "analyzed"
    /\ UNCHANGED <<raw, clean, clean2, df, session, main>>

\* The values of a text column a filter can name, and no filter
FilterChoices(rows, col) ==
    {None} \cup {rows[i][col] : i \in 1..Len(rows)}

\* InteractiveFeatures(df).price_prediction_model(product, market, origin)
PricePrediction ==
    /\ pc = "enriched"
    /\ LET rows == prepare_data(df)
       IN  \E product \in FilterChoices(df, "product_clean"),
              market \in FilterChoices(df, "market_clean"),
              origin \in FilterChoices(df, "origin"),
              sklearn \in SklearnOnNaN :
              res' = [analyzer |-> "model",
                      product |-> product, market |-> market, origin |-> origin,
                      out |-> price_prediction_model(rows, product, market,
                                                     origin, sklearn)]
    /\ pc' = "analyzed"
    /\ UNCHANGED <<raw, clean, clean2, df, session, main>>

\* The days the dashboard's slider offers: its default and its maximum
DaysAhead == {7, 30}

\* InteractiveFeatures(df).predict_future_prices(days_ahead, product)
PredictFuture ==
    /\ pc = "enriched"
    /\ LET rows == prepare_data(df)
       IN  \E product \in FilterChoices(df, "product_clean"),
              days_ahead \in DaysAhead, sklearn \in SklearnOnNaN :
              res' = [analyzer |-> "forecast",
                      product |-> product, days_ahead |-> days_ahead,
                      out |-> predict_future_prices(rows, days_ahead, product,
                                                    sklearn)]
    /\ pc' = "analyzed"
    /\ UNCHANGED <<raw, clean, clean2, df, session, main>>

Analyze == Sentiment \/ Anomaly \/ Clustering \/ Elasticity \/ AlertSystem

\* The forecaster, which needs the longer series
Forecast == PricePrediction \/ PredictFuture

(***************************************************************************)
(* The pipeline on small batches                                           *)
(***************************************************************************)
MaxBatch == 3

Tomato == <<"T", "o", "m", "a", "t", "o">>
Rungis == <<"R", "u", "n", "g", "i", "s">>

\* The three records of the end-to-end scenario, of one day
TomatoScenario ==
    << RawRecord(Tomato, <<"0", "1", "-", "0", "3", "-", "2", "0", "2", "4">>, Rungis, <<"T", "o", "m", "a", "t", "o", " ", "C", "a", "t", ".", "I", " ", "-", " ", "F", "r", "a", "n", "c", "e", " ", "2", ",", "5", "0", " ", "<euro>">>),
       RawRecord(Tomato, <<"0", "1", "-", "0", "3", "-", "2", "0", "2", "4">>, Rungis, <<"T", "o", "m", "a", "t", "o", " ", "C", "a", "t", ".", "I", " ", "-", " ", "F", "r", "a", "n", "c", "e", " ", "2", ",", "7", "0", " ", "<euro>">>),
       RawRecord(Tomato, <<"0", "1", "-", "0", "3", "-", "2", "0", "2", "4">>, Rungis, <<"T", "o", "m", "a", "t", "o", " ", "C", "a", "t", ".", "I", " ", "-", " ", "F", "r", "a", "n", "c", "e", " ", "n", "o", " ", "p", "r", "i", "c", "e", " ", "l", "i", "s", "t", "e", "d">>) >>

\* Those three records, and the first of them on two days that do not exist
RawPool ==
    {TomatoScenario[i] : i \in 1..3}
        \cup {RawRecord(Tomato, d, Rungis, TomatoScenario[1].description) :
                 d \in {<<"3", "1", "-", "0", "2", "-", "2", "0", "2", "4">>, <<"3", "0", "-", "0", "2", "-", "2", "0", "2", "4">>}}

Batches == UNION {[1..n -> RawPool] : n \in 1..MaxBatch}

Init ==
    /\ pc = "raw"
    /\ raw \in Batches
    /\ clean = <<>>
    /\ clean2 = <<>>
    /\ df = <<>>
    /\ res = NoResult
    /\ adv = <<>>
    /\ inter = <<>>
    /\ calls = <<>>
    /\ main = NoRun

Next == CleanData \/ ReClean \/ AddDerivedFeatures \/ Analyze

Spec == Init /\ [][Next]_vars

(***************************************************************************)
(* One record, over all short descriptions and over the months             *)
(***************************************************************************)
MaxTextLen == 4

TextAlphabet == {"2", "0", ",", "g", " ", "<euro>"}

ShortTexts == UNION {[1..n -> TextAlphabet] : n \in 0..MaxTextLen}

SampleTexts ==
    { <<"T", "o", "m", "a", "t", "o", " ", "C", "a", "t", ".", "I", " ", "-", " ", "F", "r", "a", "n", "c", "e", " ", "2", ",", "5", "0", " ", "<euro>">>,
      <<"1", "2", " ", "<euro>", " ", "p", "u", "i", "s", " ", "3", ",", "5", " ", "<euro>">>,
      <<"<euro>", " ", "4", ".", "2", "5">>,
      <<"7", ",", "5", " ", "e", "u", "r">>,
      <<"L", "o", "t", " ", "5", "0", "0", " ", "g", " ", "B", "i", "o", " ", "E", "s", "p", "a", "g", "n", "e">>,
      <<"C", "a", "t", ".", " ", "I", "I", "I", " ", "1", "2", "<euro>">>,
      <<"P", "o", "m", "m", "e", "s", " ", "3", " ", "k", "g", " ", "4", ",", "5", "0", " ", "<euro>">>,
      <<"n", "o", " ", "p", "r", "i", "c", "e", " ", "l", "i", "s", "t", "e", "d">>,
      <<"0", ",", "0", "0", " ", "<euro>">> }

\* Descriptions that name several countries, or a country inside a word
OriginTexts ==
    { <<"M", "a", "r", "o", "c", " ", "o", "u", " ", "F", "r", "a", "n", "c", "e">>,
      <<"U", "E", " ", "-", " ", "E", "s", "p", "a", "g", "n", "e">>,
      <<"B", "e", "l", "g", "i", "q", "u", "e">>,
      <<"G", "r", "<e-grave>", "c", "e">>,
      <<"B", "l", "e", "u", "e">> }

\* Descriptions in which a later pattern matches before an earlier one
PriceTexts ==
    { <<"2", " ", "<euro>", " ", "7", ",", "5", " ", "E", "U", "R">>,
      <<"3", " ", "<euro>", " ", "o", "u", " ", "<euro>", " ", "4", ".", "2", "5">>,
      <<"<euro>", " ", "4", ",", "2", "5", " ", "-", " ", "3", ",", "5", " ", "<euro>">> }

\* Descriptions with several quantities, and with units inside words
QuantityTexts ==
    { <<"5", "0", "0", " ", "g", " ", "o", "u", " ", "2", " ", "k", "g">>,
      <<"2", "5", "0", " ", "m", "l">>,
      <<"3", " ", "c", "o", "l", "i", "s", " ", "d", "e", " ", "2", " ", "l">>,
      <<"2", " ", "p", "l", "a", "t", "e", "a", "u", "x", " ", "1", "2", " ", "p", "i", "e", "c", "e", "s">>,
      <<"1", ",", "5", " ", "k", "g">>,
      <<"B", "a", "r", "q", ".", " ", "1", "5", "0", "0", "G">> }

\* Descriptions with the grades, and with several quality marks
QualityTexts ==
    { <<"T", "o", "m", "a", "t", "e", " ", "C", "a", "t", ".", " ", "I", "I">>,
      <<"T", "o", "m", "a", "t", "e", " ", "C", "a", "t", ".", " ", "I">>,
      <<"B", "i", "o", " ", "C", "a", "t", ".", " ", "2">>,
      <<"B", "i", "o", " ", "E", "x", "t", "r", "a">>,
      <<"4", "0", "-", "5", "0", "m", "m", " ", "B", "i", "o">>,
      <<"C", "a", "l", "i", "b", "r", "e", " ", "4", "0", "-", "5", "0", " ", "m", "m">> }

\* Product names with keywords of several categories, with a keyword inside
\* another word, with none, and a missing name
ProductNames ==
    { <<"C", "e", "r", "i", "s", "e", "s", " ", "e", "t", " ", "t", "o", "m", "a", "t", "e", "s">>,
      <<"P", "O", "M", "M", "E", " ", "D", "E", " ", "T", "E", "R", "R", "E">>,
      <<"V", "o", "l", "a", "i", "l", "l", "e">>,
      <<"L", "a", "i", "t", "u", "e">>,
      <<"B", "<oe>", "u", "f">>,
      <<"<oe>", "u", "f", "s">>,
      <<" ", "p", "o", "u", "l", "e", "t", " ", "f", "e", "r", "m", "i", "e", "r", " ">>,
      <<"B", "a", "n", "a", "n", "e">>,
      <<"F", "r", "o", "m", "a", "g", "e", " ", "d", "e", " ", "c", "h", "<e-grave>", "v", "r", "e">>,
      <<>>,
      NA }

TwoDigits(k) == <<DigitChars[(k \div 10) + 1], DigitChars[(k % 10) + 1]>>

\* The text dd-mm-2024
DateOf(d, m) == TwoDigits(d) \o <<"-">> \o TwoDigits(m) \o <<"-", "2", "0", "2", "4">>

\* Date texts that are not a day of the calendar written day-month-year:
\* days that do not exist, other orders and separators, a two-digit year,
\* words, no text and a missing date
MalformedDates ==
    { DateOf(31, 2), DateOf(30, 2), <<"2", "0", "2", "4", "-", "0", "3", "-", "0", "1">>, <<"0", "1", "/", "0", "3", "/", "2", "0", "2", "4">>,
      <<"0", "1", "-", "0", "3", "-", "2", "4">>, <<"h", "i", "e", "r">>, <<>>, NA }

\* The 15th of every month, and the texts that are no date
MonthDates == {DateOf(15, m) : m \in 1..12} \cup MalformedDates

InitF ==
    /\ pc = "raw"
    /\ \/ \E t \in ShortTexts \cup SampleTexts \cup OriginTexts \cup PriceTexts \cup QuantityTexts \cup QualityTexts
                   \cup {NA} :
             raw = <<RawRecord(Tomato, DateOf(15, 1), Rungis, t)>>
       \/ \E p \in ProductNames :
             raw = <<RawRecord(p, DateOf(15, 1), Rungis, <<"1", "0", " ", "<euro>">>)>>
       \/ \E d \in MonthDates :
             raw = <<RawRecord(Tomato, d, Rungis, <<"T", "o", "m", "a", "t", "o", " ", "C", "a", "t", ".", "I", " ", "-", " ", "F", "r", "a", "n", "c", "e", " ", "2", ",", "5", "0", " ", "<euro>">>)>>
    /\ clean = <<>>
    /\ clean2 = <<>>
    /\ df = <<>>
    /\ res = NoResult
    /\ adv = <<>>
    /\ inter = <<>>
    /\ calls = <<>>
    /\ main = NoRun

\* Normalisation and enrichment of the one record
NextF == CleanData \/ ReClean \/ AddDerivedFeatures

SpecF == InitF /\ [][NextF]_vars

(***************************************************************************)
(* Price series of two products                                            *)
(***************************************************************************)
\* A series is up to MaxRun records at the base price followed by up to
\* MaxVar records that vary.
MaxRun == 9
MaxVar == 1

Pomme == <<"P", "o", "m", "m", "e">>

BaseText == <<"1", "0", " ", "<euro>">>

\* What a varying record carries: another price or none, on a day that
\* exists or not
VarTokens ==
    { [description |-> <<"5", "0", " ", "<euro>">>, dated |-> TRUE],
      [description |-> <<"5", "0", " ", "<euro>">>, dated |-> FALSE],
      [description |-> <<"1", "0", " ", "<euro>">>, dated |-> FALSE],
      [description |-> <<"n", "o", " ", "p", "r", "i", "c", "e">>, dated |-> TRUE] }

VarSeqs == UNION {[1..n -> VarTokens] : n \in 0..MaxVar}

\* Product Tomato: run records at the base price on the first days of
\* January, then the varying records on the following days
SeriesA(run, var) ==
    [i \in 1..(run + Len(var)) |->
        IF i <= run THEN RawRecord(Tomato, DateOf(i, 1), Rungis, BaseText)
        ELSE RawRecord(Tomato,
                       IF var[i - run].dated THEN DateOf(i, 1) ELSE DateOf(31, 2),
                       Rungis, var[i - run].description)]

\* Product Pomme: n records at the base price on the first days of February
SeriesB(n) == [i \in 1..n |-> RawRecord(Pomme, DateOf(i, 2), Rungis, BaseText)]

\* Pomme has no record, one too few for the anomaly detector, or just enough
SeriesBLengths == {0, AnomalyMinObs - 1, AnomalyMinObs}

\* Four markets
MarketNames ==
    << Rungis, <<"L", "y", "o", "n">>, <<"N", "a", "n", "t", "e", "s">>,
       <<"L", "i", "l", "l", "e">> >>

\* Tomato at the base price and at 50 euros on two days of March, on each of
\* the first k markets
MarketSeries(k) ==
    [i \in 1..(2 * k) |->
        RawRecord(Tomato, DateOf(((i - 1) % 2) + 1, 3), MarketNames[((i - 1) \div 2) + 1],
                  IF i % 2 = 1 THEN BaseText ELSE <<"5", "0", " ", "<euro>">>)]

\* Tomato four times at the base price, then once at 1 euro
LowSeries == SeriesA(4, <<[description |-> <<"1", " ", "<euro>">>, dated |-> TRUE]>>)

\* Tomato at the base price and at 50 euros in turn, on five days
ZigZagSeries ==
    [i \in 1..5 |->
        RawRecord(Tomato, DateOf(i, 1), Rungis,
                  IF i % 2 = 1 THEN BaseText ELSE <<"5", "0", " ", "<euro>">>)]

InitA ==
    /\ pc = "raw"
    /\ \/ \E run \in 0..MaxRun, var \in VarSeqs, n \in SeriesBLengths :
             /\ run + Len(var) + n > 0
             \* more than one varying record comes with series A alone
             /\ Len(var) <= 1 \/ n = 0
             /\ raw = SeriesA(run, var) \o SeriesB(n)
       \/ \E k \in {NumClusters - 1, NumClusters} : raw = MarketSeries(k)
       \/ raw \in {LowSeries, ZigZagSeries}
    /\ clean = <<>>
    /\ clean2 = <<>>
    /\ df = <<>>
    /\ res = NoResult
    /\ adv = <<>>
    /\ inter = <<>>
    /\ calls = <<>>
    /\ main = NoRun

NextA == Next \/ Forecast

SpecA == InitA /\ [][NextA]_vars

(***************************************************************************)
(* A dashboard session: two instances, several calls                       *)
(***************************************************************************)
\* A constructor that keeps the caller's table itself, so that the columns
\* prepare_data adds are written to it
InputAfterInitAliased(rows) ==
    [i \in 1..Len(rows) |-> rows[i] @@ [product_clean_encoded |-> Num(0)]]

\* The caller's table once AdvancedFeatures(df) and InteractiveFeatures(df)
\* are built: each constructor prepares self.df = df.copy().
InputAfterInit(rows) == rows

\* A call that drops the rows without price from the table of its instance
InstanceAfterDropna(analyzer, rows) ==
    IF analyzer = "elasticity"
    THEN SelectSeq(rows, LAMBDA r : ~IsNaN(r.price))
    ELSE rows

\* The table of the instance once a call of the analyzer has returned: the
\* analyzers select rows into new tables (a .copy() where they add a
\* column) and assign nothing to self.df.
InstanceAfter(analyzer, rows) == rows

\* The analyzers of AdvancedFeatures and of InteractiveFeatures
AdvancedAnalyzers == {"sentiment", "anomaly", "clustering", "elasticity"}
InteractiveAnalyzers == {"alerts", "model", "forecast"}

\* threshold_percent=20 and days_ahead=7, the defaults
DefaultThreshold == 20
DefaultDaysAhead == 7

\* The calls of a session on the table rows: the analyzers of the whole
\* table, the forecaster without filter, and the alerts of each product
CallChoices(rows) ==
    {[analyzer |-> a, product |-> None] :
        a \in AdvancedAnalyzers \cup {"model", "forecast"}}
    \cup {[analyzer |-> "alerts", product |-> Products(rows)[k]] :
             k \in 1..Len(Products(rows))}

\* Every result the call c can return on the tables a (advanced) and i
\* (interactive), over the builds of the libraries
Outcomes(c, a, i) ==
    CASE c.analyzer = "sentiment" ->
            {create_market_sentiment_analyzer(a, lapack) : lapack \in PolyfitOnNaN}
      [] c.analyzer = "anomaly" ->
            LET raising == {s \in SklearnOnNaN : AnomalyRaises(a, s)}
            IN  (IF raising = {} THEN {}
                 ELSE {[raised |-> TRUE, rows |-> {}, fitted |-> {}]})
                \cup (IF raising = SklearnOnNaN THEN {}
                      ELSE {[raised |-> FALSE, rows |-> t.rows, fitted |-> t.fitted] :
                               t \in AnomalyTables(a, Products(a), 1)})
      [] c.analyzer = "clustering" ->
            {create_market_clustering(a)}
      [] c.analyzer = "elasticity" ->
            {create_price_elasticity_analyzer(a)}
      [] c.analyzer = "alerts" ->
            {create_alert_system(i, c.product, DefaultThreshold, fill) :
                fill \in PctChangeFill}
      [] c.analyzer = "model" ->
            {price_prediction_model(i, c.product, None, None, sklearn) :
                sklearn \in SklearnOnNaN}
      [] c.analyzer = "forecast" ->
            {predict_future_prices(i, DefaultDaysAhead, c.product, sklearn) :
                sklearn \in SklearnOnNaN}

\* The table the call c reads
TableOf(c, a, i) == IF c.analyzer \in AdvancedAnalyzers THEN a ELSE i

\* advanced = AdvancedFeatures(df); interactive = InteractiveFeatures(df)
Construct ==
    /\ pc = "enriched"
    /\ pc' = "session"
    /\ adv' = prepare_advanced_data(df)
    /\ inter' = prepare_data(df)
    /\ df' = InputAfterInit(df)
    /\ calls' = <<>>
    /\ UNCHANGED <<raw, clean, clean2, res, main>>

\* Calls of one session
MaxCalls == 2

\* A call of an analyzer begins; the calls still running overlap with it
Begin ==
    /\ pc = "session"
    /\ Len(calls) < MaxCalls
    /\ \E c \in CallChoices(df) :
          calls' = Append(
              [k \in 1..Len(calls) |->
                  IF calls[k].state = "running"
                  THEN [calls[k] EXCEPT !.overlapped = TRUE]
                  ELSE calls[k]],
              [analyzer |-> c.analyzer, product |-> c.product,
               state |-> "running",
               overlapped |-> \E k \in 1..Len(calls) : calls[k].state = "running",
               seen |-> <<>>, out |-> NoResult])
    /\ UNCHANGED <<pc, raw, clean, clean2, df, res, adv, inter, main>>

\* A running call returns.  Its result is one the analyzer can give on the
\* table of its instance as it is now; the libraries are seeded
\* (random_state=42) and of one build, so a call that read the same table
\* as an earlier call of the same analyzer and product repeats its result.
Finish ==
    /\ pc = "session"
    /\ \E k \in 1..Len(calls) :
          /\ calls[k].state = "running"
          /\ \E out \in Outcomes(calls[k], adv, inter) :
                /\ \A j \in 1..Len(calls) :
                      (/\ calls[j].state = "done"
                       /\ calls[j].analyzer = calls[k].analyzer
                       /\ calls[j].product = calls[k].product
                       /\ calls[j].seen = TableOf(calls[k], adv, inter))
                          => out = calls[j].out
                /\ calls' = [calls EXCEPT ![k] =
                                [@ EXCEPT !.state = "done",
                                          !.seen = TableOf(calls[k], adv, inter),
                                          !.out = out]]
          /\ adv' = IF calls[k].analyzer \in AdvancedAnalyzers
                    THEN InstanceAfter(calls[k].analyzer, adv) ELSE adv
          /\ inter' = IF calls[k].analyzer \in InteractiveAnalyzers
                      THEN InstanceAfter(calls[k].analyzer, inter) ELSE inter
    /\ UNCHANGED <<pc, raw, clean, clean2, df, res, main>>

\* The varying record of a session's table has no price, or has no date
SessionTokens ==
    {v \in VarTokens : v.dated = (v.description # <<"5", "0", " ", "<euro>">>)}

\* Tables of one product, short or long enough for every analyzer, whose
\* last record has no price or no date
InitC ==
    /\ pc = "raw"
    /\ \E run \in {2, AnomalyMinObs - 1}, v \in SessionTokens :
          raw = SeriesA(run, <<v>>)
    /\ clean = <<>>
    /\ clean2 = <<>>
    /\ df = <<>>
    /\ res = NoResult
    /\ adv = <<>>
    /\ inter = <<>>
    /\ calls = <<>>
    /\ main = NoRun

NextC == CleanData \/ AddDerivedFeatures \/ Construct \/ Begin \/ Finish

SpecC == InitC /\ [][NextC]_vars


(***************************************************************************)
(* main.py: the modes and the stages of the full pipeline                  *)
(***************************************************************************)
\* --mode
Modes == {"full", "scraping", "processing", "visualizations", "dashboard"}

\* The stages of run_full_pipeline, in the order of its text
FullStages == <<"scraping", "processing", "visualizations", "dashboard">>

\* The categories the scraping loop visits, and the plots generate_all_plots
\* attempts
NumCategories == 4
NumPlots == 7

\* main() up to the dispatch on args.mode: the first stage of the mode
\* begins.
ParseArgs ==
    /\ main.pc = "start"
    /\ \E mode \in Modes :
          LET first == IF mode = "full" THEN FullStages[1] ELSE mode
          IN  main' = [main EXCEPT !.pc = first, !.mode = mode,
                                   !.started = <<first>>]
    /\ UNCHANGED <<pc, raw, clean, clean2, df, res, session>>

\* The stage in progress ends without an exception and without an early
\* return; logged tells whether a layer below caught an error of its own
\* and only logged it.  In full mode the text goes on to the next stage, or
\* to `return True` after the last; a single-stage function returns.
StageSucceeds(m, logged) ==
    LET ended == Append(m.ended, [result |-> "ok", logged |-> logged])
    IN  IF m.mode = "full" /\ Len(m.started) < Len(FullStages)
        THEN [m EXCEPT !.ended = ended,
                       !.started = Append(@, FullStages[Len(m.started) + 1]),
                       !.pc = FullStages[Len(m.started) + 1]]
        ELSE [m EXCEPT !.ended = ended, !.pc = "finish", !.success = <<TRUE>>]

\* A failure after which run_full_pipeline goes on with the next stage
StageFailsGoesOn(m, result) ==
    LET ended == Append(m.ended, [result |-> result, logged |-> FALSE])
    IN  IF m.mode = "full" /\ Len(m.started) < Len(FullStages)
        THEN [m EXCEPT !.ended = ended, !.error_printed = TRUE,
                       !.started = Append(@, FullStages[Len(m.started) + 1]),
                       !.pc = FullStages[Len(m.started) + 1]]
        ELSE [m EXCEPT !.ended = ended, !.error_printed = TRUE,
                       !.pc = "finish", !.success = <<m.mode # "full">>]

\* The stage in progress fails: an exception reaches the except clause of
\* the stage ("raised"), or the stage finds nothing to work on ("empty").
\* Both print a line; run_full_pipeline returns False, a single-stage
\* function returns and main sets success = True.
StageFails(m, result) ==
    [m EXCEPT !.ended = Append(@, [result |-> result, logged |-> FALSE]),
              !.error_printed = TRUE,
              !.pc = "finish",
              !.success = <<m.mode # "full">>]

\* One turn of the loop over the categories: scrape_category returns
\* records or none (a page that could not be fetched gives none), or an
\* exception leaves the loop; in full mode the records are saved at once.
ScrapeCategory ==
    /\ main.pc = "scraping"
    /\ Len(main.collected) < NumCategories
    /\ \/ \E records \in BOOLEAN :
             main' = [main EXCEPT !.collected = Append(@, records)]
       \/ main' = StageFails(main, "raised")
    /\ UNCHANGED <<pc, raw, clean, clean2, df, res, session>>

\* After the loop: `if all_results` saves them, which may raise; else
\* nothing was collected.
ScrapingDone ==
    /\ main.pc = "scraping"
    /\ Len(main.collected) = NumCategories
    /\ IF \E k \in 1..NumCategories : main.collected[k]
       THEN \/ main' = StageSucceeds(main, FALSE)
            \/ main' = StageFails(main, "raised")
       ELSE main' = StageFails(main, "empty")
    /\ UNCHANGED <<pc, raw, clean, clean2, df, res, session>>

\* Stage 2 and run_processing_only: load_data returns an empty table (also
\* when it caught an error of read_csv), or clean_data, add_derived_features
\* or generate_summary_stats raise, or all return; save_processed_data
\* catches and logs its own error.
Processing ==
    /\ main.pc = "processing"
    /\ \/ \E logged \in BOOLEAN : main' = StageSucceeds(main, logged)
       \/ \E result \in {"empty", "raised"} : main' = StageFails(main, result)
    /\ UNCHANGED <<pc, raw, clean, clean2, df, res, session>>

\* Stage 3 and run_visualizations_only: generate_all_plots catches the
\* error of each plot, so any number of the plots succeed; the constructor
\* or the counting may raise.
Visualizations ==
    /\ main.pc = "visualizations"
    /\ \/ \E n \in 0..NumPlots :
             main' = [StageSucceeds(main, n < NumPlots) EXCEPT !.plots = n]
       \/ main' = StageFails(main, "raised")
    /\ UNCHANGED <<pc, raw, clean, clean2, df, res, session>>

\* Stage 4: Popen may raise; otherwise the stage ends when the server ends
\* or is interrupted, whatever the server's own exit code.  Mode dashboard:
\* os.system, whose return code is not looked at.
Dashboard ==
    /\ main.pc = "dashboard"
    /\ \/ \E logged \in BOOLEAN : main' = StageSucceeds(main, logged)
       \/ main.mode = "full" /\ main' = StageFails(main, "raised")
    /\ UNCHANGED <<pc, raw, clean, clean2, df, res, session>>

\* The end of main(): `if success` prints and falls off the end (status 0),
\* else sys.exit(1).
Exit ==
    /\ main.pc = "finish"
    /\ main' = [main EXCEPT !.pc = "exited",
                            !.exit = <<IF main.success[1] THEN 0 ELSE 1>>]
    /\ UNCHANGED <<pc, raw, clean, clean2, df, res, session>>

InitM ==
    /\ pc = "raw"
    /\ raw = <<>>
    /\ clean = <<>>
    /\ clean2 = <<>>
    /\ df = <<>>
    /\ res = NoResult
    /\ adv = <<>>
    /\ inter = <<>>
    /\ calls = <<>>
    /\ main = NotStarted

NextM ==
    \/ ParseArgs \/ ScrapeCategory \/ ScrapingDone \/ Processing
    \/ Visualizations \/ Dashboard \/ Exit

\* The interpreter runs on after a stage has ended: the return and the exit
\* are always taken.  (The end of a stage itself may wait on the network or
\* on the user.)
SpecM == InitM /\ [][NextM]_vars /\ WF_vars(Exit)

(***************************************************************************)
(* Properties                                                              *)
(***************************************************************************)
\* The normalised table, once clean_data has returned
Cleaned == pc \in {"clean", "recleaned", "enriched", "analyzed"}

\* The enriched table, once add_derived_features has returned
Enriched == pc \in {"enriched", "analyzed"}

\* C1: in every record clean_data produces, unit_price is defined exactly
\* when price is; it is price / quantity when quantity is present and > 0 and
\* price itself when quantity is null or <= 0, so it is never the infinity
\* or NaN of a division by zero.
C1_UnitPrice ==
    Cleaned =>
        \A i \in 1..Len(clean) :
            LET r == clean[i]
            IN  /\ IsNaN(r.unit_price) <=> IsNaN(r.price)
                /\ ~IsNaN(r.price) => IsFinite(r.unit_price)
                /\ (~IsNaN(r.quantity) /\ r.quantity.n > 0 /\ ~IsNaN(r.price))
                      => FMul(r.unit_price, r.quantity) = r.price
                /\ (IsNaN(r.quantity) \/ r.quantity.n <= 0)
                      => r.unit_price = r.price

\* C1's case: a record with a quantity above 1 whose unit price is its price
\* divided
C1_Witness ==
    /\ pc = "clean"
    /\ \E i \in 1..Len(clean) :
          /\ clean[i].quantity = Num(2)
          /\ clean[i].price = Num(2)
          /\ clean[i].unit_price = Num(1)

HasDigit(t) == \E i \in 1..Len(t) : IsDigit(t[i])

\* The upper-cased text holds one of the words
HasAny(t, words) == \E w \in words : Contains(Upper(t), w)

SeasonTable ==
    <<"Hiver", "Hiver", "Printemps", "Printemps", "Printemps", "Ete", "Ete", "Ete",
      "Automne", "Automne", "Automne", "Hiver">>

\* C10: for every month 1..12 the season of a record is the one the table
\* gives, and the demo generator's get_season gives the same.
C10_SeasonMapping ==
    Enriched =>
        \A i \in 1..Len(df) :
            \A m \in 1..12 :
                df[i].month = Num(m) =>
                    /\ df[i].season = SeasonTable[m]
                    /\ demo_get_season(df[i].month) = df[i].season

\* C10's case: a December record has been given its season
C10_Witness ==
    /\ pc = "enriched"
    /\ \E i \in 1..Len(df) : df[i].month = Num(12) /\ df[i].season = "Hiver"


\* The rows of df of one product, and those of them that carry a price
ObsOf(p) == {i \in 1..Len(df) : df[i].product_clean = p}
PricedOf(p) == {i \in ObsOf(p) : ~IsNaN(df[i].price)}
ProductsOf == {df[i].product_clean : i \in 1..Len(df)}

Analyzed(a) == pc = "analyzed" /\ res.analyzer = a

\* C2: clean_data on its own output gives the same set of records; no two
\* rows of its output are equal in every field; and it drops no distinct row
\* of its input, so it returns as many rows as its input has distinct rows.
C2_Dedup ==
    /\ pc = "recleaned" =>
          {clean2[i] : i \in 1..Len(clean2)} = {clean[i] : i \in 1..Len(clean)}
    /\ Cleaned =>
          /\ \A i, j \in 1..Len(clean) : i # j => clean[i] # clean[j]
          /\ Len(clean) = Cardinality({raw[i] : i \in 1..Len(raw)})

\* C2, amended: clean_data on its own output returns it unchanged; no two
\* rows of its output are equal in every field; and every input row has its
\* normalised record in the output, so a row is dropped only when it
\* normalises to the record of a row that is kept.
C2_Idempotent ==
    /\ pc = "recleaned" => clean2 = clean
    /\ Cleaned =>
          /\ \A i, j \in 1..Len(clean) : i # j => clean[i] # clean[j]
          /\ \A i \in 1..Len(raw) : \E j \in 1..Len(clean) : clean[j] = CleanRow(raw[i])

\* C2's case: a batch with a repeated record has been normalised twice
C2_Witness ==
    /\ pc = "recleaned"
    /\ Len(raw) = 3
    /\ raw[1] = raw[3]
    /\ raw[1] # raw[2]
    /\ Len(clean) = 2
    /\ clean2 = clean

\* C3: a record without a price stays in the table but no analyzer counts
\* it: an elasticity row needs 5 priced observations, a fitted forest 10, an
\* alert analysis 2, a sentiment row 1, and the sentiment's stability counts
\* the priced observations only.
C3_NullPriceExcluded ==
    /\ Cleaned =>
          \A i \in 1..Len(raw) :
              \E j \in 1..Len(clean) : clean[j].description = raw[i].description
    /\ Analyzed("elasticity") =>
          \A k \in 1..Len(res.rows) :
              Cardinality(PricedOf(res.rows[k].product)) >= ElasticityMinObs
    /\ Analyzed("anomaly") =>
          \A p \in res.fitted : Cardinality(PricedOf(p)) >= AnomalyMinObs
    /\ Analyzed("alerts") =>
          (Cardinality(PricedOf(res.product)) < MinAlertObs
              => res.out.message = "Pas assez de donnees")
    /\ (Analyzed("sentiment") /\ ~res.out.raised) =>
          \A k \in 1..Len(res.out.rows) :
              LET n == Cardinality(PricedOf(res.out.rows[k].product))
              IN  n >= 1 /\ res.out.rows[k].stability = Frac(n, StabilityWindow)

\* C4: the three Tomato records normalise to three records with the prices
\* 2.50, 2.70 and null, and the sentiment analyzer then returns one row for
\* Tomato whose volatility and trend are those of the two priced
\* observations: sqrt(0.02) / 2.6 and 0.2 / 2.6 * 100.
C4_EndToEnd ==
    raw = TomatoScenario =>
        /\ Cleaned =>
              /\ Len(clean) = 3
              /\ clean[1].price = Frac(5, 2)
              /\ clean[2].price = Frac(27, 10)
              /\ IsNaN(clean[3].price)
        /\ Analyzed("sentiment") =>
              /\ ~res.out.raised
              /\ Len(res.out.rows) = 1
              /\ res.out.rows[1].product = Tomato
              /\ res.out.rows[1].volatility_sq = Frac(1, 338)
              /\ res.out.rows[1].trend = Frac(100, 13)


\* The positions, in date order, of the variation alerts of the last call
VariationAlerts ==
    {res.out.alerts[k].pos :
        k \in {j \in 1..Len(res.out.alerts) :
                  res.out.alerts[j].type = "variation_significative"}}

\* C5: for a product with at least 2 observations, the variation alerts are
\* exactly the observations, in date order, whose price differs from the
\* price of the observation before by more than threshold percent of it; a
\* step between two equal prices is never one of them. (Steps to or from an
\* observation without a price are left open.)
C5_VariationAlerts ==
    Analyzed("alerts") =>
        LET product_data == sort_values(ProductData(df, res.product))
            n == Len(product_data)
            Step(i) == FSub(product_data[i].price, product_data[i - 1].price)
            Exceeds(i) ==
                FGreater(FMul(FAbs(Step(i)), Num(100)),
                         FMul(Num(res.threshold), FAbs(product_data[i - 1].price)))
        IN  n >= 2 =>
                /\ 1 \notin VariationAlerts
                /\ \A i \in 2..n :
                      (/\ ~IsNaN(product_data[i].price)
                       /\ ~IsNaN(product_data[i - 1].price)
                       /\ product_data[i - 1].price # Num(0))
                      => (i \in VariationAlerts <=> Exceeds(i))

\* A product all of whose observations carry one and the same price
ConstantPrice(p) ==
    /\ PricedOf(p) = ObsOf(p)
    /\ \A i, j \in ObsOf(p) : df[i].price = df[j].price

ElasticityRowsOf(p) == {k \in 1..Len(res.rows) : res.rows[k].product = p}

\* C6 as stated: every product whose price never changes has exactly one
\* elasticity row, and its elasticity is 0.
C6_ConstantPrice ==
    Analyzed("elasticity") =>
        \A p \in ProductsOf :
            ConstantPrice(p) =>
                /\ Cardinality(ElasticityRowsOf(p)) = 1
                /\ \A k \in ElasticityRowsOf(p) : res.rows[k].elasticity_sq = Num(0)

\* C6, amended: every product with at least 5 observations whose price never
\* changes has exactly one elasticity row, and its elasticity is 0; a product
\* with fewer than 5 observations has no row.
C6_ConstantPriceFrom5 ==
    Analyzed("elasticity") =>
        \A p \in ProductsOf :
            /\ (ConstantPrice(p) /\ Cardinality(ObsOf(p)) >= 5) =>
                  /\ Cardinality(ElasticityRowsOf(p)) = 1
                  /\ \A k \in ElasticityRowsOf(p) : res.rows[k].elasticity_sq = Num(0)
            /\ Cardinality(ObsOf(p)) < 5 => ElasticityRowsOf(p) = {}

\* C6's case: a product of five observations at one price has its row
C6_Witness ==
    /\ Analyzed("elasticity")
    /\ ConstantPrice(Tomato)
    /\ Cardinality(ObsOf(Tomato)) = 5
    /\ \E k \in ElasticityRowsOf(Tomato) : res.rows[k].elasticity_sq = Num(0)

\* C7: every anomaly row belongs to a product with at least 10 observations,
\* so a product with 9 or fewer has none; and when the detector returns, the
\* products it fitted are all those with at least 10 observations, whatever
\* smaller products stand before them in the table.
C7_AnomalyMinObs ==
    Analyzed("anomaly") =>
        /\ \A r \in res.rows : Cardinality(ObsOf(r.product)) >= 10
        /\ ~res.raised =>
              res.fitted = {p \in ProductsOf : Cardinality(ObsOf(p)) >= 10}

\* C7's case: Tomato, first in the table, has too few observations and no
\* row, and Pomme after it is fitted and has a row
C7_Witness ==
    /\ Analyzed("anomaly")
    /\ ~res.raised
    /\ Cardinality(ObsOf(Tomato)) \in 1..9
    /\ df[1].product_clean = Tomato
    /\ Pomme \in res.fitted
    /\ \E r \in res.rows : r.product = Pomme

\* C8: of a product with n >= 10 observations the detector flags at most
\* n / 10 rounded up, and every anomaly row repeats the product, date, price
\* and market of one of that product's own observations.
C8_AnomalyShare ==
    Analyzed("anomaly") =>
        /\ \A p \in ProductsOf :
              Cardinality(ObsOf(p)) >= 10 =>
                  Cardinality({r \in res.rows : r.product = p})
                      <= (Cardinality(ObsOf(p)) + 9) \div 10
        /\ \A r \in res.rows :
              \E i \in ObsOf(r.product) :
                  /\ df[i].price = r.price
                  /\ df[i].date = r.date
                  /\ df[i].market_clean = r.market

\* C8's case: one of Tomato's 10 observations is flagged
C8_Witness ==
    /\ Analyzed("anomaly")
    /\ Cardinality(ObsOf(Tomato)) = 10
    /\ Cardinality({r \in res.rows : r.product = Tomato}) = 1


\* The rows of the table that pass the filters of a forecaster call
Matching(product, market, origin) ==
    {i \in 1..Len(df) :
        /\ product = None \/ df[i].product_clean = product
        /\ market = None \/ df[i].market_clean = market
        /\ origin = None \/ df[i].origin = origin}

\* C11: price_prediction_model and predict_future_prices always return a
\* pair (result, error) of which exactly one is None; when fewer than 10
\* rows pass the filters the result is None, the error is the message that
\* there is not enough data, and fit has not been called.
C11_ForecasterPair ==
    /\ Analyzed("model") =>
          /\ (res.out.result = None) # (res.out.error = "None")
          /\ Cardinality(Matching(res.product, res.market, res.origin)) < 10 =>
                /\ res.out.result = None
                /\ res.out.error = "Pas assez de donnees pour l'entrainement"
                /\ ~res.out.fit_called
    /\ Analyzed("forecast") =>
          /\ (res.out.result = None) # (res.out.error = "None")
          /\ Cardinality(Matching(res.product, None, None)) < 10 =>
                /\ res.out.result = None
                /\ res.out.error = "Pas assez de donnees pour l'entrainement"

\* C11's case: the table has 10 rows or more and the product filter leaves
\* fewer than 10 of them, so the call ends with the message and no model
C11_Witness ==
    /\ Analyzed("model")
    /\ Len(df) >= 10
    /\ Cardinality(Matching(res.product, res.market, res.origin)) \in 1..9
    /\ res.out.result = None
    /\ res.out.error = "Pas assez de donnees pour l'entrainement"

\* A forecast of 7 days is returned
C11_ForecastReturned ==
    /\ Analyzed("forecast")
    /\ res.days_ahead = 7
    /\ res.out.error = "None"
    /\ Len(res.out.result[1]) = 7

\* The calls of the session that have returned
Done == {k \in 1..Len(calls) : calls[k].state = "done"}

Raised ==
    /\ pc = "analyzed"
    /\ \/ res.analyzer \in {"sentiment", "clustering"} /\ res.out.raised
       \/ res.analyzer = "anomaly" /\ res.raised

\* C13: no call of the sentiment analyzer, the anomaly detector, the market
\* clustering, the elasticity estimator, the forecaster or the alert system
\* ends with an exception, whatever the enriched table.
C13_NoAnalyzerRaises == ~Raised

\* C14: no infinity and no NaN of an undefined computation is in a result:
\* the volatility and the trend of every sentiment row and the elasticity of
\* every elasticity row are finite, and unit_price is finite wherever the
\* price is defined.
C14_NoUndefinedValues ==
    /\ Cleaned =>
          \A i \in 1..Len(clean) :
              ~IsNaN(clean[i].price) => IsFinite(clean[i].unit_price)
    /\ (Analyzed("sentiment") /\ ~res.out.raised) =>
          \A k \in 1..Len(res.out.rows) :
              /\ IsFinite(res.out.rows[k].volatility_sq)
              /\ IsFinite(res.out.rows[k].trend)
    /\ Analyzed("elasticity") =>
          \A k \in 1..Len(res.rows) : IsFinite(res.rows[k].elasticity_sq)

Clamp(x) ==
    IF SurdIsNaN(x) THEN x
    ELSE IF SurdGE(x, Num(100)) THEN Surd(Num(100), Num(0))
    ELSE IF SurdGT(x, Num(0)) THEN x
    ELSE Surd(Num(0), Num(0))

\* 50 + 10 trend - 20 volatility + 5 stability of a sentiment row
RawScore(row) ==
    Surd(FAdd(FAdd(Num(50), FMul(row.trend, Num(10))), FMul(row.stability, Num(5))),
         FMul(Num(400), row.volatility_sq))

\* The bands of the recommendation
Band(score) ==
    IF SurdGE(score, Num(70)) THEN "Fort - Achat recommande"
    ELSE IF SurdGE(score, Num(50)) THEN "Modere - Surveillance"
    ELSE IF SurdGE(score, Num(30)) THEN "Faible - Prudence"
    ELSE "Tres faible - Eviter"

\* The score of a sentiment row is the clamped formula and its
\* recommendation is the band of the score
ScoreAsStated(row) ==
    /\ row.sentiment_score = Clamp(RawScore(row))
    /\ SurdGE(row.sentiment_score, Num(0))
    /\ ~SurdGT(row.sentiment_score, Num(100))
    /\ row.recommendation = Band(row.sentiment_score)

\* C16: the score of every sentiment row is
\* clamp(50 + 10 trend - 20 volatility + 5 stability, 0, 100), so within
\* [0, 100], and its recommendation is fixed by the score: >= 70 strong,
\* >= 50 moderate, >= 30 weak, very weak otherwise.
C16_SentimentScore ==
    (Analyzed("sentiment") /\ ~res.out.raised) =>
        \A k \in 1..Len(res.out.rows) : ScoreAsStated(res.out.rows[k])

\* C16 on the rows whose volatility and trend are defined
C16_DefinedRows ==
    (Analyzed("sentiment") /\ ~res.out.raised) =>
        \A k \in 1..Len(res.out.rows) :
            (IsFinite(res.out.rows[k].volatility_sq) /\ IsFinite(res.out.rows[k].trend))
                => ScoreAsStated(res.out.rows[k])

\* C17: every price clean_data extracts is greater than 0, and the
\* description '0,00 EUR' (with the euro sign) has no price.
C17_PositivePrice ==
    Cleaned =>
        \A i \in 1..Len(clean) :
            /\ IsNaN(clean[i].price) \/ FGreater(clean[i].price, Num(0))
            /\ clean[i].description = <<"0", ",", "0", "0", " ", "<euro>">> => IsNaN(clean[i].price)

\* C18: an enriched record has the band 'Non disponible' exactly when its
\* price is null, in a batch without any price and in a batch where other
\* records have one.
C18_UnavailableBand ==
    Enriched =>
        \A i \in 1..Len(df) :
            (df[i].price_category = "Non disponible") <=> IsNaN(df[i].price)

\* The five bands
Bands == {"<2EUR", "2-5EUR", "5-10EUR", "10-20EUR", ">20EUR"}

\* C19: every enriched record with a price, a price of 0 included, has one
\* of the five bands; a price of 2 is not in '<2', a price of 20 is in the
\* top band, and the band is the one get_price_category of the
\* demonstration data gives the price.
C19_BandsCoverPrices ==
    Enriched =>
        \A i \in 1..Len(df) :
            ~IsNaN(df[i].price) =>
                /\ df[i].price_category \in Bands
                /\ df[i].price = Num(2) => df[i].price_category # "<2EUR"
                /\ df[i].price = Num(20) => df[i].price_category = ">20EUR"
                /\ df[i].price_category = demo_get_price_category(df[i].price)

\* C19 on the prices that are neither 0 nor an edge of a band
C19_InsideBands ==
    Enriched =>
        \A i \in 1..Len(df) :
            (/\ ~IsNaN(df[i].price)
             /\ df[i].price \notin {Num(0), Num(2), Num(5), Num(10), Num(20)})
                => /\ df[i].price_category \in Bands
                   /\ df[i].price_category = demo_get_price_category(df[i].price)

Occurring(t) == {k \in 1..Len(countries) : Contains(Upper(t), countries[k])}

\* C21: the origin of a record is the first entry of the gazetteer, in list
\* order, that occurs in the upper-cased description, wherever the entries
\* stand in the text, and null when none occurs.
C21_OriginGazetteerOrder ==
    Cleaned =>
        \A i \in 1..Len(clean) :
            LET r == clean[i]
                t == r.description
            IN  IF t = NA \/ Occurring(t) = {}
                THEN r.origin = <<>>
                ELSE \E k \in Occurring(t) :
                        /\ r.origin = countries[k]
                        /\ \A j \in 1..(k - 1) : j \notin Occurring(t)

\* C21's case: a description that names Maroc before France has been given
\* the origin FRANCE, which stands first in the gazetteer
C21_Witness ==
    /\ pc = "clean"
    /\ Len(clean) = 1
    /\ clean[1].description = <<"M", "a", "r", "o", "c", " ", "o", "u", " ", "F", "r", "a", "n", "c", "e">>
    /\ Cardinality(Occurring(clean[1].description)) = 2
    /\ clean[1].origin = <<"F", "R", "A", "N", "C", "E">>

\* Pattern k of price_patterns matches somewhere in the upper-cased text
PriceMatches(k, t) == \E i \in 1..Len(Upper(t)) : PriceMatchAt(k, Upper(t), i) # <<>>

\* The number a captured amount states: its digits before the separator and
\* its digits after it, as tenths, hundredths, ...
Amount(token) ==
    LET seps == {i \in 1..Len(token) : token[i] \in {".", ","}}
    IN  IF seps = {} THEN Num(IntOf(token))
        ELSE LET p == MinOf(seps)
                 decimals == SubSeq(token, p + 1, Len(token))
             IN  FAdd(Num(IntOf(SubSeq(token, 1, p - 1))),
                      Frac(IntOf(decimals), Pow10(Len(decimals))))

\* C22: the price of a record is the amount captured by the first pattern,
\* in list order, that matches anywhere in the text, a comma read as the
\* decimal point; a later pattern decides only when no earlier one matches,
\* wherever the matches stand; the price is null when no pattern matches.
C22_PricePatternOrder ==
    Cleaned =>
        \A i \in 1..Len(clean) :
            LET r == clean[i]
                t == r.description
                K == IF t = NA THEN {}
                     ELSE {k \in 1..NumPricePatterns : PriceMatches(k, t)}
            IN  IF K = {} THEN IsNaN(r.price)
                ELSE \E k \in K :
                        /\ \A j \in 1..(k - 1) : j \notin K
                        /\ r.price = Amount(PriceSearch(k, Upper(t)))

\* C22's case: the integer amount stands first in the text, the decimal
\* amount after it, and the decimal pattern, first in the list, has decided
C22_Witness ==
    /\ pc = "clean"
    /\ Len(clean) = 1
    /\ clean[1].description = <<"1", "2", " ", "<euro>", " ", "p", "u", "i", "s", " ", "3", ",", "5", " ", "<euro>">>
    /\ PriceMatches(1, clean[1].description)
    /\ PriceMatches(4, clean[1].description)
    /\ clean[1].price = Frac(7, 2)

\* The integers the text states for unit number k: the positions [i, j] of
\* a whole run of digits that the unit follows, spaces apart
StatedFor(k, t) ==
    {ij \in (1..Len(t)) \X (1..Len(t)) :
        /\ ij[1] <= ij[2]
        /\ \A p \in ij[1]..ij[2] : IsDigit(t[p])
        /\ ij[1] = 1 \/ ~IsDigit(t[ij[1] - 1])
        /\ \E s \in (ij[2] + 1)..(Len(t) + 1) :
              /\ \A p \in (ij[2] + 1)..(s - 1) : IsSpace(t[p])
              /\ LitAt(t, s, QuantityUnits[k])}

\* C23: quantity and unit of a record are both null or both set; the unit
\* is the first of the vocabulary, in list order, for which the upper-cased
\* text states an integer, and the quantity is the first such integer of
\* the text, whole; both are null when the text states none.
C23_QuantityUnit ==
    Cleaned =>
        \A i \in 1..Len(clean) :
            LET r == clean[i]
                t == IF r.description = NA THEN <<>> ELSE Upper(r.description)
                K == {k \in 1..Len(QuantityUnits) : StatedFor(k, t) # {}}
            IN  /\ IsNaN(r.quantity) <=> r.unit = <<>>
                /\ r.unit # <<>> => \E k \in 1..Len(QuantityUnits) : r.unit = QuantityUnits[k]
                /\ IF K = {} THEN r.unit = <<>>
                   ELSE \E k \in K :
                           /\ \A j \in 1..(k - 1) : j \notin K
                           /\ r.unit = QuantityUnits[k]
                           /\ \E ij \in StatedFor(k, t) :
                                 /\ \A o \in StatedFor(k, t) : ij[1] <= o[1]
                                 /\ r.quantity = Num(IntOf(SubSeq(t, ij[1], ij[2])))

\* C23's case: grams stand first in the text, kilograms after them, and
\* the kilograms, first in the list, have been extracted
C23_Witness ==
    /\ pc = "clean"
    /\ Len(clean) = 1
    /\ clean[1].description = <<"5", "0", "0", " ", "g", " ", "o", "u", " ", "2", " ", "k", "g">>
    /\ clean[1].quantity = Num(2)
    /\ clean[1].unit = <<"K", "G">>

\* Where the upper-cased text writes a category grade: the positions of CAT.
CatAt(t) == {i \in 1..Len(t) : CatMatchAt(t, i) > 0}

\* The last character of the grade written at the first of them: of the
\* whole run I, II or III, or of the digit
GradeEnd(t) ==
    LET g == CatMatchAt(t, MinOf(CatAt(t)))
        more == {n \in 1..2 : \A p \in g..(g + n) : p <= Len(t) /\ t[p] = "I"}
    IN  IF more = {} THEN g ELSE g + (CHOOSE n \in more : \A o \in more : o <= n)

\* C24: the quality of a record is the text the first pattern that matches
\* has matched (grade, then EXTRA, then BIO, then the calibre), and for a
\* category grade it carries the grade as written, so that Cat. I, Cat. II
\* and Cat. III give three different labels.
C24_QualityGrade ==
    Cleaned =>
        \A i \in 1..Len(clean) :
            LET r == clean[i]
                t == IF r.description = NA THEN <<>> ELSE Upper(r.description)
            IN  IF CatAt(t) # {}
                THEN r.quality = SubSeq(t, MinOf(CatAt(t)), GradeEnd(t))
                ELSE r.quality = QualityFrom(2, t)

\* Apart from the grade, the label is as stated: it begins where the first
\* pattern that matches has matched, and a grade label begins with CAT.
C24_PatternOrder ==
    Cleaned =>
        \A i \in 1..Len(clean) :
            LET r == clean[i]
                t == IF r.description = NA THEN <<>> ELSE Upper(r.description)
                K == {k \in 1..NumQualityPatterns :
                         \E p \in 1..Len(t) : QualityMatchAt(k, t, p) > 0}
            IN  IF K = {} THEN r.quality = <<>>
                ELSE \E p \in 1..Len(t) :
                        /\ QualityMatchAt(MinOf(K), t, p) > 0
                        /\ \A o \in 1..(p - 1) : QualityMatchAt(MinOf(K), t, o) = 0
                        /\ r.quality = SubSeq(t, p, QualityMatchAt(MinOf(K), t, p))

\* The taxonomy categories one of whose keywords occurs in the lower-cased
\* name
Hits(name) ==
    {k \in 1..Len(categories) :
        \E w \in categories[k].keywords : Contains(Lower(name), w)}

\* C25: every record gets a category: the first of the taxonomy, in its
\* order, one of whose keywords occurs in the lower-cased product name, and
\* Autre when no keyword of any category occurs.
C25_CategoryTaxonomyOrder ==
    Enriched =>
        \A i \in 1..Len(df) :
            LET r == df[i]
                K == Hits(r.product_clean)
            IN  /\ r.product_category \in
                      {categories[k].category : k \in 1..Len(categories)} \cup {"Autre"}
                /\ IF K = {} THEN r.product_category = "Autre"
                   ELSE \E k \in K :
                           /\ \A j \in 1..(k - 1) : j \notin K
                           /\ r.product_category = categories[k].category

\* C25's case: a name with a fruit before a vegetable has been classified
\* as a vegetable, the first category of the taxonomy
C25_Witness ==
    /\ pc = "enriched"
    /\ Len(df) = 1
    /\ df[1].product_clean = <<"C", "e", "r", "i", "s", "e", "s", " ", "E", "t", " ", "T", "o", "m", "a", "t", "e", "s">>
    /\ Hits(df[1].product_clean) = {1, 2}
    /\ df[1].product_category = "Legumes"

\* The outlier alerts of the last call: position in date order and type
OutlierAlerts ==
    {<<res.out.alerts[k].pos, res.out.alerts[k].type>> :
        k \in {j \in 1..Len(res.out.alerts) :
                  res.out.alerts[j].type \in {"prix_eleve", "prix_bas"}}}

\* The observations outside the Tukey fences of the product's own prices
BeyondFences(product_data) ==
    LET prices == Column(product_data, "price")
    IN  {<<i, "prix_eleve">> : i \in {j \in 1..Len(prices) :
                                        FGreater(prices[j], UpperFence(prices))}}
        \cup {<<i, "prix_bas">> : i \in {j \in 1..Len(prices) :
                                        FLess(prices[j], LowerFence(prices))}}

\* C26: for a product with at least 2 observations the outlier alerts are
\* exactly the observations above Q3 + 1.5 IQR (prix_eleve) or below
\* Q1 - 1.5 IQR (prix_bas) of its own prices; with fewer than 2 the alert
\* list is empty and a message says so.
C26_OutlierAlerts ==
    Analyzed("alerts") =>
        LET product_data == sort_values(ProductData(df, res.product))
        IN  IF Len(product_data) < 2
            THEN res.out.alerts = <<>> /\ res.out.message = "Pas assez de donnees"
            ELSE OutlierAlerts = BeyondFences(product_data)

\* The same for the products whose observations all have a date
C26_DatedOutlierAlerts ==
    Analyzed("alerts") =>
        LET product_data == sort_values(ProductData(df, res.product))
        IN  (\A i \in 1..Len(product_data) : ~IsNaT(product_data[i].date))
                => IF Len(product_data) < 2
                   THEN res.out.alerts = <<>> /\ res.out.message = "Pas assez de donnees"
                   ELSE OutlierAlerts = BeyondFences(product_data)

\* A high and a low outlier alert of dated observations
C26_DatedHigh ==
    /\ Analyzed("alerts")
    /\ \E i \in 1..Len(df) : <<i, "prix_eleve">> \in OutlierAlerts

C26_DatedLow ==
    /\ Analyzed("alerts")
    /\ \E i \in 1..Len(df) : <<i, "prix_bas">> \in OutlierAlerts

\* The correlation, squared, of the price changes of product p with the
\* price changes one step before, in date order
LagCorrSq(p) ==
    LET prices == Column(sort_values(ProductData(df, p)), "price")
        changes == [i \in 1..(Len(prices) - 1) |->
                       FDiv(FSub(prices[i + 1], prices[i]), prices[i])]
        n == Len(changes)
    IN  CorrSq(SubSeq(changes, 2, n), SubSeq(changes, 1, n - 1))

\* C27: the elasticity table has exactly one row for each product with at
\* least 5 observations and none for a product with fewer; the elasticity
\* of a row lies in [0, 1] and is the absolute value of the lag-1
\* correlation of the price changes wherever that correlation is defined
\* (compared as squares); its category is Tres elastique above 0.8,
\* Elastique above 0.5, Peu elastique above 0.2, Inelastique otherwise.
C27_ElasticityRows ==
    Analyzed("elasticity") =>
        /\ \A p \in ProductsOf :
              Cardinality(ElasticityRowsOf(p)) =
                  IF Cardinality(ObsOf(p)) >= 5 THEN 1 ELSE 0
        /\ \A k \in 1..Len(res.rows) :
              LET row == res.rows[k]
                  e == row.elasticity_sq
              IN  /\ row.product \in ProductsOf
                  /\ IsFinite(e) /\ ~FLess(e, Num(0)) /\ ~FGreater(e, Num(1))
                  /\ ~IsNaN(LagCorrSq(row.product)) => e = LagCorrSq(row.product)
                  /\ row.elasticity_category =
                        CASE FGreater(e, Frac(64, 100)) -> "Tres elastique"
                          [] ~FGreater(e, Frac(64, 100)) /\ FGreater(e, Frac(25, 100)) -> "Elastique"
                          [] ~FGreater(e, Frac(25, 100)) /\ FGreater(e, Frac(4, 100)) -> "Peu elastique"
                          [] OTHER -> "Inelastique"

\* C27's case: a product of five observations whose price goes up and down
\* has its row, with the elasticity 1 of its correlation -1
C27_Witness ==
    /\ Analyzed("elasticity")
    /\ Cardinality(ObsOf(Tomato)) = 5
    /\ LagCorrSq(Tomato) = Num(1)
    /\ Len(res.rows) = 1
    /\ res.rows[1].elasticity_sq = Num(1)
    /\ res.rows[1].elasticity_category = "Tres elastique"

\* A product with four observations is left out while another has its row
C27_Skipped ==
    /\ Analyzed("elasticity")
    /\ \E p \in ProductsOf : Cardinality(ObsOf(p)) = 4 /\ ElasticityRowsOf(p) = {}
    /\ Len(res.rows) = 1

\* The table the forecaster works on, and the rows of it of one month
ForecastTable == prepare_data(df)

\* C28: when the model is fitted, predict_future_prices with days_ahead = N
\* returns N predictions, the i-th for the i-th day after the latest date of
\* the table, built from the month and the year of that day and from the
\* means of the encoded columns over the rows of that month.
C28_FuturePredictions ==
    (Analyzed("forecast") /\ res.out.fitted) =>
        /\ res.out.result # None
        /\ LET predictions == res.out.result[1]
               last_date == MaxDate(df)
           IN  /\ Len(predictions) = res.days_ahead
               /\ \A i \in 1..Len(predictions) :
                     LET p == predictions[i]
                         I == {j \in 1..Len(df) : df[j].month = p.month}
                     IN  /\ ~IsNaT(p.date)
                         /\ p.date = AddDays(last_date, i)
                         /\ p.month = Num(p.date.m) /\ p.year = Num(p.date.y)
                         /\ I # {}
                         /\ \A c \in EncodedColumns :
                               FMul(p.avg_features[c], Num(Cardinality(I)))
                                   = FSum([j \in 1..Len(df) |->
                                             IF j \in I THEN ForecastTable[j][c]
                                             ELSE Num(0)])

\* Every day to predict lies in a month of which the table has rows
MonthsObserved ==
    \A i \in 1..res.days_ahead :
        \E j \in 1..Len(df) : df[j].month = Num(AddDays(MaxDate(df), i).m)

\* The same, for the calls all of whose days lie in months the table has
\* rows of
C28_ObservedMonths ==
    (Analyzed("forecast") /\ res.out.fitted /\ MonthsObserved)
        => C28_FuturePredictions

\* Seven predictions for the seven days after the tenth of January
C28_SevenDays ==
    /\ Analyzed("forecast") /\ res.out.fitted /\ res.out.result # None
    /\ res.days_ahead = 7
    /\ Len(res.out.result[1]) = 7
    /\ res.out.result[1][7].date = Timestamp(2024, 1, 17)

\* C29: a record whose date is null is enriched with an undefined month and
\* an undefined year and with the season Automne, so that every enriched
\* record has one of the four seasons.
C29_NullDateSeason ==
    Enriched =>
        \A i \in 1..Len(df) :
            /\ df[i].season \in {"Hiver", "Printemps", "Ete", "Automne"}
            /\ IsNaT(df[i].date) =>
                  /\ IsNaN(df[i].month)
                  /\ IsNaN(df[i].year)
                  /\ df[i].season = "Automne"

\* C29's case: a record dated 31-02-2024, a day that does not exist, has
\* been enriched
C29_Witness ==
    /\ pc = "enriched"
    /\ Len(df) = 1
    /\ raw[1].date.s = DateOf(31, 2)
    /\ IsNaT(df[1].date)
    /\ IsNaN(df[1].month)
    /\ df[1].season = "Automne"

\* main.py has dispatched on the mode
Running == main.pc \notin {"idle", "start"}

\* The stages that ended in a failure, by their place among those begun
FailedStages ==
    IF Running THEN {k \in 1..Len(main.ended) : main.ended[k].result # "ok"} ELSE {}

\* The order of the stages in full mode, and the stop at the first failure
C30_StagesInOrder ==
    (Running /\ main.mode = "full") =>
        /\ main.started = SubSeq(FullStages, 1, Len(main.started))
        /\ Len(main.started) - Len(main.ended) \in {0, 1}
        /\ \A k \in 1..(Len(main.started) - 1) :
              k <= Len(main.ended) /\ main.ended[k].result = "ok"
        /\ Len(main.started) >= 2 =>
              \E k \in 1..Len(main.collected) : main.collected[k]
        /\ \A k \in FailedStages :
              /\ k = Len(main.started)
              /\ main.error_printed
              /\ main.success = <<FALSE>>
        /\ main.exit = <<1>> <=> (main.pc = "exited" /\ FailedStages # {})
        /\ main.exit = <<0>> <=>
              /\ main.pc = "exited"
              /\ Len(main.ended) = Len(FullStages)
              /\ FailedStages = {}

\* The single-stage modes: one stage, its failure printed, success reported
C30_SingleStage ==
    (Running /\ main.mode # "full") =>
        /\ main.started = <<main.mode>>
        /\ FailedStages # {} => main.error_printed /\ main.success = <<TRUE>>
        /\ main.pc = "exited" => main.exit = <<0>>

\* C30: in full mode the stages begin in the order scraping, processing,
\* visualizations, dashboard, each only after the one before has ended
\* without a failure (processing only when scraping collected a record);
\* after a failure no stage begins, run_full_pipeline returns False and the
\* process exits with status 1.  In the single-stage modes a failure is
\* printed and the process still exits with status 0.
C30_PipelineStages ==
    /\ [](C30_StagesInOrder /\ C30_SingleStage)
    /\ [][FailedStages # {} => main'.started = main.started]_vars
    /\ (Running /\ main.mode = "full" /\ FailedStages # {}) ~> (main.exit = <<1>>)
    /\ (Running /\ main.mode # "full" /\ FailedStages # {}) ~> (main.exit = <<0>>)

\* C30's case: the full pipeline has exited with status 1 after processing
\* failed on the records scraping had collected, visualizations never begun
C30_Witness ==
    /\ main.pc = "exited"
    /\ main.mode = "full"
    /\ main.started = <<"scraping", "processing">>
    /\ main.ended[1].result = "ok"
    /\ main.ended[2].result = "raised"
    /\ main.exit = <<1>>
====
